---- MODULE Spec2Model ----
(* Acceleration-structure and shader-binding-table construction of the        *)
(* ray-tracing renderer (src/src/renderers/ray_tracing.rs,                    *)
(* src/src/acceleration_structure.rs, src/src/device_mesh.rs).                *)
EXTENDS Integers, Sequences, FiniteSets, TLC

(***************************************************************************)
(* Bounds of the model                                                     *)
(***************************************************************************)
\* number of entries of memory_types a device reports at most
MaxMemoryTypes == 3

\* number of Buffer::new calls in a run of Buffer::new on its own
MaxBufferCalls == 2

\* largest triangle count of a mesh handed to build_bottomlevel on its own
MaxTriangles == 120

\* longest mesh list handed to set_meshes
MaxMeshes == 2

\* number of set_meshes calls in a run (main makes one, before the event loop)
MaxSetMeshesCalls == 1

\* number of set_meshes calls a user of the Renderer trait makes
MaxRendererSetMeshesCalls == 2

(***************************************************************************)
(* Values drawn for the inputs                                             *)
(***************************************************************************)
\* device-reported shader_group_handle_size values
HandleSizes == {16, 32}

\* device-reported shader_group_base_alignment values (powers of two)
BaseAlignments == {8, 16, 32, 64}

\* the attribute kinds a DeviceMesh may hold a buffer for
AttributeType == {"Normals", "Position", "Index"}

\* the device meshes main uploads: DeviceMesh::new always creates the
\* Position and the Index buffer, and the Normals buffer only when the host
\* mesh has vertex normals
DeviceMeshes ==
    { [id |-> 1, buffers |-> {"Position", "Index", "Normals"}],
      [id |-> 2, buffers |-> {"Position", "Index", "Normals"}],
      [id |-> 3, buffers |-> {"Position", "Index"}] }

\* any DeviceMesh value the type admits (buffers is a HashMap keyed by kind)
AnyDeviceMeshes == { [id |-> 1, buffers |-> b] : b \in SUBSET AttributeType }

\* Option<T>: None is the empty sequence, Some(x) the one-element sequence
None == <<>>

Some(x) == <<x>>

is_some(o) == Len(o) = 1

unwrap(o) == o[1]

Max(x, y) == IF x >= y THEN x ELSE y

SeqsUpTo(S, n) == UNION { [1..k -> S] : k \in 0..n }

(***************************************************************************)
(* u32 arithmetic, carried out on 16-bit halves                            *)
(***************************************************************************)
Half == 2^16

RECURSIVE BitAnd16(_, _)
BitAnd16(x, y) ==
    IF x = 0 \/ y = 0 THEN 0
    ELSE (x % 2) * (y % 2) + 2 * BitAnd16(x \div 2, y \div 2)

\* x reduced modulo 2^32 (x >= 0)
wrap32(x) == ((x \div Half) % Half) * Half + (x % Half)

\* !x on one 16-bit half
not16(x) == Half - 1 - x

\* x & !y on u32, half by half
and_not32(x, y) ==
    BitAnd16(x \div Half, not16(y \div Half)) * Half + BitAnd16(x % Half, not16(y % Half))

\* fn aligned_size(value: u32, alignment: u32) -> u32:
\* (value + alignment - 1) & !(alignment - 1)
aligned_size(value, alignment) ==
    and_not32(wrap32(value + alignment - 1), wrap32(alignment - 1))

\* a u32 beyond the integers at hand, as its two 16-bit halves <<high, low>>
U32(x) == <<x \div Half, x % Half>>

\* u32 addition, wrapping: the low halves' carry goes into the high halves
wrapping_add(x, y) ==
    <<(x[1] + y[1] + (x[2] + y[2]) \div Half) % Half, (x[2] + y[2]) % Half>>

\* !x on u32
not32(x) == <<not16(x[1]), not16(x[2])>>

\* u32 subtraction, wrapping: x - y = x + !y + 1
wrapping_sub(x, y) == wrapping_add(wrapping_add(x, not32(y)), <<0, 1>>)

\* x & y on u32
and32(x, y) == <<BitAnd16(x[1], y[1]), BitAnd16(x[2], y[2])>>

aligned_size_u32_mutant_round_down(value, alignment) ==
    and32(value, not32(wrapping_sub(alignment, <<0, 1>>)))

\* aligned_size on operands given as halves, operation by operation:
\* ((value + alignment) - 1) & !(alignment - 1)
aligned_size_u32(value, alignment) ==
    and32(wrapping_sub(wrapping_add(value, alignment), <<0, 1>>),
          not32(wrapping_sub(alignment, <<0, 1>>)))

\* static NUM_ATTRIBUTES: usize = 2
NUM_ATTRIBUTES == 2

(***************************************************************************)
(* Device addresses and opaque handles handed out by the driver            *)
(***************************************************************************)
\* DeviceMesh::indices_device_address: the index buffer's device address
indices_device_address(mesh) ==
    IF "Index" \in mesh.buffers THEN Some(2^12 * mesh.id + 2^8 + 2) ELSE None

\* DeviceMesh::normals_device_address: the normal buffer's device address
normals_device_address(mesh) ==
    IF "Normals" \in mesh.buffers THEN Some(2^12 * mesh.id + 2^9 + 3) ELSE None

\* Buffer::device_address of the SBT buffer
sbt_device_address == 2^16

\* get_acceleration_structure_device_address of the k-th structure the device
\* created
acceleration_structure_device_address(k) == 2^20 + 2^8 * k

\* u64::to_le_bytes
RECURSIVE le_bytes(_, _)
le_bytes(x, n) ==
    IF n = 0 THEN <<>> ELSE <<x % 256>> \o le_bytes(x \div 256, n - 1)

to_le_bytes(x) == le_bytes(x, 8)

\* get_ray_tracing_shader_group_handles(pipeline, first_group, group_count, _):
\* group_count handles of handle_size opaque, non-zero bytes each
shader_group_handles(first_group, group_count, handle_size) ==
    [k \in 1..(group_count * handle_size) |->
        1 + ((31 * (first_group + ((k - 1) \div handle_size)) + 7 * ((k - 1) % handle_size)) % 255)]

(***************************************************************************)
(* Buffer::new and the acceleration-structure builders, as functions of    *)
(* the driver's answer: each returns its result and the GPU calls issued   *)
(***************************************************************************)
\* vk::MemoryPropertyFlags: DEVICE_LOCAL, HOST_VISIBLE, HOST_COHERENT
DEVICE_LOCAL == 1

HOST_VISIBLE == 2

HOST_COHERENT == 4

\* a | b of two distinct flag bits
BitOr(a, b) == a + b - BitAnd16(a, b)

find_memorytype_index_mutant_any_flag(memory_req, memory_prop, flags) ==
    LET types == SubSeq(memory_prop.memory_types, 1, memory_prop.memory_type_count)
        found == {index \in 0..(Len(types) - 1) :
                     /\ BitAnd16(2^index, memory_req.memory_type_bits) # 0
                     /\ BitAnd16(types[index + 1].property_flags, flags) # 0}
    IN  IF found = {} THEN None
        ELSE Some(CHOOSE index \in found : \A other \in found : index <= other)

\* fn find_memorytype_index: memory_types[..memory_type_count].iter()
\* .enumerate().find(|(index, memory_type)| (1 << index) & memory_type_bits != 0
\* && memory_type.property_flags & flags == flags).map(|(index, _)| index)
find_memorytype_index(memory_req, memory_prop, flags) ==
    LET types == SubSeq(memory_prop.memory_types, 1, memory_prop.memory_type_count)
        found == {index \in 0..(Len(types) - 1) :
                     /\ BitAnd16(2^index, memory_req.memory_type_bits) # 0
                     /\ BitAnd16(types[index + 1].property_flags, flags) = flags}
    IN  IF found = {} THEN None
        ELSE Some(CHOOSE index \in found : \A other \in found : index <= other)

\* a driver call of Buffer::new with the handle or value it is about
DriverCall(name, arg) == [name |-> name, arg |-> arg]

\* where the driver may reject a call of Buffer::new
BufferFaults == {"none", "create_buffer", "allocate_memory", "map_memory", "bind_buffer_memory"}

\* the device returns a new vk::DeviceMemory: it is named by the least number
\* naming no allocation made so far
new_memory(allocated) ==
    CHOOSE m \in 1..(Cardinality(allocated) + 1) :
        m \notin allocated /\ \A j \in 1..(m - 1) : j \in allocated

memory_flags_mutant_swapped(host_memory) ==
    IF host_memory THEN DEVICE_LOCAL ELSE BitOr(HOST_VISIBLE, HOST_COHERENT)

\* if host_memory.is_some() { HOST_VISIBLE | HOST_COHERENT } else { DEVICE_LOCAL }
memory_flags(host_memory) ==
    IF host_memory THEN BitOr(HOST_VISIBLE, HOST_COHERENT) ELSE DEVICE_LOCAL

\* Buffer::new call by call: host_memory tells whether a payload is given,
\* allocated is the set of allocations made so far; the result carries the
\* calls issued, the flags asked for and the allocations made afterwards
Buffer_new_calls(memory_prop, memory_req, host_memory, fault, allocated) ==
    LET flags == memory_flags(host_memory)
        index == find_memorytype_index(memory_req, memory_prop, flags)
        memory == new_memory(allocated)
        c1 == <<DriverCall("create_buffer", 0)>>
        c2 == c1 \o <<DriverCall("get_buffer_memory_requirements", 0)>>
        c3 == c2 \o <<DriverCall("allocate_memory", unwrap(index))>>
        c4 == IF host_memory THEN c3 \o <<DriverCall("map_memory", memory)>> ELSE c3
        c5 == IF host_memory THEN c4 \o <<DriverCall("unmap_memory", memory)>> ELSE c4
        c6 == c5 \o <<DriverCall("bind_buffer_memory", memory)>>
        Err(msg, calls, after) ==
            [result |-> "err", error |-> msg, calls |-> calls, flags |-> flags,
             memory |-> None, allocated |-> after]
    IN  IF fault = "create_buffer" THEN Err("vk", c1, allocated)
        ELSE IF ~is_some(index) THEN Err("Failed to get memory index", c2, allocated)
        ELSE IF fault = "allocate_memory" THEN Err("vk", c3, allocated)
        ELSE IF host_memory /\ fault = "map_memory"
             THEN Err("vk", c4, allocated \cup {memory})
        ELSE IF fault = "bind_buffer_memory" THEN Err("vk", c6, allocated \cup {memory})
        ELSE [result |-> "ok", error |-> "", calls |-> c6, flags |-> flags,
              memory |-> Some(memory), allocated |-> allocated \cup {memory}]

\* Buffer::new: fails when the driver rejects the allocation
Buffer_new(alloc_fails, with_host_memory) ==
    LET head == <<"create_buffer", "get_buffer_memory_requirements", "allocate_memory">>
        copy == IF with_host_memory THEN <<"map_memory", "unmap_memory">> ELSE <<>>
    IN  IF alloc_fails
        THEN [result |-> "err", calls |-> head]
        ELSE [result |-> "ok", calls |-> head \o copy \o <<"bind_buffer_memory">>]

\* build_range_info.primitive_count(mesh.num_triangles() as u32 / 3)
build_range_primitive_count(num_triangles) == wrap32(num_triangles) \div 3

\* the max_primitive_counts of get_acceleration_structure_build_sizes:
\* &[mesh.num_triangles() as u32]
max_primitive_count(num_triangles) == wrap32(num_triangles)

\* where the driver may reject a call of build_bottomlevel
BlasFaults ==
    {"none", "as_buffer", "create_as", "scratch_buffer", "begin", "end", "submit", "wait"}

\* an Err return of build_bottomlevel: the GPU calls issued, the Buffers made
\* (bottom_as_buffer, scratch_buffer) and whether the structure was created
BlasErr(msg, calls, buffers, accel) ==
    [result |-> "err", error |-> msg, calls |-> calls, blas |-> None,
     buffers |-> buffers, accel |-> accel]

\* AccelerationStructureData::build_bottomlevel
build_bottomlevel(mesh, fault, k) ==
    LET c1 == <<"get_buffer_device_address">>
        c2 == c1 \o <<"get_buffer_device_address">>
        c3 == c2 \o <<"get_acceleration_structure_build_sizes">>
        c4 == c3 \o Buffer_new(fault = "as_buffer", FALSE).calls
        c5 == c4 \o <<"create_acceleration_structure">>
        c6 == c5 \o Buffer_new(fault = "scratch_buffer", FALSE).calls
        c7 == c6 \o <<"get_buffer_device_address", "begin_command_buffer">>
        c8 == c7 \o <<"cmd_build_acceleration_structures", "end_command_buffer">>
        c9 == c8 \o <<"queue_submit">>
        c10 == c9 \o <<"queue_wait_idle">>
        c11 == c10 \o <<"get_acceleration_structure_device_address">>
        one == <<"as_storage">>
        both == <<"as_storage", "scratch">>
    IN  IF "Position" \notin mesh.buffers
        THEN BlasErr("No vertex buffer on mesh", <<>>, <<>>, FALSE)
        ELSE IF "Index" \notin mesh.buffers
        THEN BlasErr("No index buffer on mesh", c1, <<>>, FALSE)
        ELSE IF fault = "as_buffer" THEN BlasErr("vk", c4, <<>>, FALSE)
        ELSE IF fault = "create_as" THEN BlasErr("vk", c5, one, FALSE)
        ELSE IF fault = "scratch_buffer" THEN BlasErr("vk", c6, one, TRUE)
        ELSE IF fault = "begin" THEN BlasErr("vk", c7, both, TRUE)
        ELSE IF fault = "end" THEN BlasErr("vk", c8, both, TRUE)
        ELSE IF fault = "submit" THEN BlasErr("queue submit failed.", c9, both, TRUE)
        ELSE IF fault = "wait" THEN BlasErr("vk", c10, both, TRUE)
        ELSE [result |-> "ok", error |-> "", calls |-> c11,
              blas |-> Some([handle |-> acceleration_structure_device_address(k),
                             mesh |-> Some(mesh)]),
              buffers |-> both, accel |-> TRUE]

\* AccelerationStructureData::reference
reference(blas) == blas.handle

\* vk::GeometryInstanceFlagsKHR::TRIANGLE_FACING_CULL_DISABLE.as_raw()
TRIANGLE_FACING_CULL_DISABLE == 1

\* ash::vk::Packed24_8::new keeps the low 24 bits of its first argument
Packed24(x) == wrap32(x) % 2^24

instance_record_mutant_offset(i, pair, attributes_per_instance) ==
    [ transform |-> pair[2],
      record_offset |-> Packed24(attributes_per_instance * (i + 1)),
      flags |-> TRIANGLE_FACING_CULL_DISABLE,
      custom_index |-> 0,
      mask |-> 255,
      acceleration_structure_reference |-> reference(pair[1]) ]

\* the instance record build_toplevel makes of pair i (0-based) of its list
instance_record(i, pair, attributes_per_instance) ==
    [ transform |-> pair[2],
      record_offset |-> Packed24(attributes_per_instance * i),
      flags |-> TRIANGLE_FACING_CULL_DISABLE,
      custom_index |-> 0,
      mask |-> 255,
      acceleration_structure_reference |-> reference(pair[1]) ]

\* where the driver may reject a call of build_toplevel
TlasFaults ==
    {"none", "instance_buffer", "begin", "as_buffer", "create_as", "scratch_buffer",
     "end", "submit", "wait"}

\* a failed build_toplevel: the GPU calls issued, the Buffers made
\* (instance_buffer, top_as_buffer, scratch_buffer) and whether the structure
\* was created
TlasEnd(result, msg, calls, buffers, accel) ==
    [result |-> result, error |-> msg, calls |-> calls, tlas |-> None,
     buffers |-> buffers, accel |-> accel]

instance_barrier_mutant_after_build(rest) == rest \o <<"cmd_pipeline_barrier">>

\* the commands build_toplevel records into cmd: the memory barrier
\* (TRANSFER_WRITE to ACCELERATION_STRUCTURE_WRITE) comes first, the build
\* and what prepares it after
instance_barrier(rest) == <<"cmd_pipeline_barrier">> \o rest

\* TopLevelAccelerationStructure::build_toplevel
build_toplevel(bottomlevel_as, fault, attributes_per_instance, k) ==
    LET instances == [j \in 1..Len(bottomlevel_as) |->
                         instance_record(j - 1, bottomlevel_as[j], attributes_per_instance)]
        c1 == Buffer_new(fault = "instance_buffer", TRUE).calls
        c2 == c1 \o <<"begin_command_buffer">>
        r3 == <<"get_buffer_device_address", "get_acceleration_structure_build_sizes">>
        r4 == r3 \o Buffer_new(fault = "as_buffer", FALSE).calls
        r5 == r4 \o <<"create_acceleration_structure">>
        r6 == r5 \o Buffer_new(fault = "scratch_buffer", FALSE).calls
        r7 == r6 \o <<"get_buffer_device_address", "cmd_build_acceleration_structures">>
        c3 == c2 \o instance_barrier(r3)
        c4 == c2 \o instance_barrier(r4)
        c5 == c2 \o instance_barrier(r5)
        c6 == c2 \o instance_barrier(r6)
        c7 == c2 \o instance_barrier(r7) \o <<"end_command_buffer">>
        c8 == c7 \o <<"queue_submit">>
        c9 == c8 \o <<"queue_wait_idle">>
        c10 == c9 \o <<"get_acceleration_structure_device_address">>
        b1 == <<"instances">>
        b2 == <<"instances", "as_storage">>
        b3 == <<"instances", "as_storage", "scratch">>
    IN  IF fault = "instance_buffer" THEN TlasEnd("err", "vk", c1, <<>>, FALSE)
        ELSE IF fault = "begin" THEN TlasEnd("err", "vk", c2, b1, FALSE)
        ELSE IF fault = "as_buffer" THEN TlasEnd("err", "vk", c4, b1, FALSE)
        ELSE IF fault = "create_as" THEN TlasEnd("err", "vk", c5, b2, FALSE)
        ELSE IF fault = "scratch_buffer" THEN TlasEnd("err", "vk", c6, b2, TRUE)
        ELSE IF fault = "end" THEN TlasEnd("err", "vk", c7, b3, TRUE)
        ELSE IF fault = "submit" THEN TlasEnd("panic", "queue submit failed.", c8, b3, TRUE)
        ELSE IF fault = "wait" THEN TlasEnd("err", "vk", c9, b3, TRUE)
        ELSE [result |-> "ok", error |-> "", calls |-> c10,
              tlas |-> Some([ structure |-> acceleration_structure_device_address(k),
                              primitive_count |-> Len(instances),
                              instances |-> instances,
                              bottomlevel_as |-> bottomlevel_as ]),
              buffers |-> b3, accel |-> TRUE]

\* TopLevelAccelerationStructure::bottomlevel_as
bottomlevel_as_of(tlas) == tlas.bottomlevel_as

RECURSIVE FlatMapSome(_)
FlatMapSome(opts) ==
    IF opts = <<>> THEN <<>>
    ELSE (IF is_some(Head(opts)) THEN <<unwrap(Head(opts))>> ELSE <<>>)
         \o FlatMapSome(Tail(opts))

\* TopLevelAccelerationStructure::meshes: the meshes of the pairs that have one
meshes_of(tlas) ==
    FlatMapSome([j \in 1..Len(bottomlevel_as_of(tlas)) |-> bottomlevel_as_of(tlas)[j][1].mesh])

(***************************************************************************)
(* Ownership: what a call creates and what the drops at its end destroy.   *)
(* hp is the device's objects while a call runs: accel, the acceleration   *)
(* structures created and not destroyed (named by device address);         *)
(* buffers, the Buffers alive (named <<kind, number>>); strong, the strong *)
(* count of each Rc<DeviceMesh>; log, the call's GPU calls in segments;     *)
(* queue.submitted, the objects that command buffers submitted to the      *)
(* queue name and that no wait for the queue or the device has returned    *)
(* success for since; queue.freed, the objects the call destroyed while    *)
(* they were submitted                                                     *)
(***************************************************************************)
\* a segment of a call's GPU calls: who issued them, on which object, the
\* driver call rejected ("none" if none: a rejected call is the segment's last)
\* and the Buffers that came to life in it
Segment(by, object, calls, fault, created) ==
    [by |-> by, object |-> object, calls |-> calls, fault |-> fault, created |-> created]

NoObject == <<"none", 0>>

Buffer_drop_mutant_reversed(id) ==
    Segment("Buffer::drop", id, <<"destroy_buffer", "free_memory">>, "none", <<>>)

\* impl Drop for Buffer: free_memory(self.memory), destroy_buffer(self.buffer)
Buffer_drop(id) ==
    Segment("Buffer::drop", id, <<"free_memory", "destroy_buffer">>, "none", <<>>)

\* a Buffer goes out of scope
drop_Buffer(hp, id) ==
    [hp EXCEPT !.buffers = @ \ {id}, !.log = Append(@, Buffer_drop(id)),
               !.queue = [submitted |-> @.submitted,
                          freed |-> IF id \in @.submitted THEN @.freed \cup {id} ELSE @.freed]]

\* queue_submit returned success: the queue holds a command buffer naming refs
queue_submit(hp, refs) == [hp EXCEPT !.queue.submitted = @ \cup refs]

\* queue_wait_idle or device_wait_idle returned: success means every command
\* buffer submitted before has finished (all submissions go to graphics_queue)
queue_wait_idle(hp, ok) == IF ok THEN [hp EXCEPT !.queue.submitted = {}] ELSE hp

\* the end of a build that got as far as its queue_wait_idle: the queue took
\* the command buffer naming refs, and the build is Ok iff the wait was
build_submitted(hp, out, refs) ==
    IF \E c \in 1..Len(out.calls) : out.calls[c] = "queue_wait_idle"
    THEN queue_wait_idle(queue_submit(hp, refs), out.result = "ok")
    ELSE hp

RECURSIVE drop_Buffers(_, _)
drop_Buffers(hp, ids) ==
    IF ids = <<>> THEN hp ELSE drop_Buffers(drop_Buffer(hp, Head(ids)), Tail(ids))

\* the Buffers of a DeviceMesh (its HashMap<AttributeType, Buffer>)
mesh_buffers(mesh) ==
    (IF "Position" \in mesh.buffers THEN << <<"Position", mesh.id>> >> ELSE <<>>)
    \o (IF "Normals" \in mesh.buffers THEN << <<"Normals", mesh.id>> >> ELSE <<>>)
    \o (IF "Index" \in mesh.buffers THEN << <<"Index", mesh.id>> >> ELSE <<>>)

\* Rc::clone of an Rc<DeviceMesh>
clone_Rc(hp, mesh) == [hp EXCEPT !.strong[mesh.id] = @ + 1]

\* an Rc<DeviceMesh> goes out of scope: the last one drops the DeviceMesh and
\* with it the Buffers of its map
drop_Rc(hp, mesh) ==
    IF hp.strong[mesh.id] = 1
    THEN drop_Buffers([hp EXCEPT !.strong[mesh.id] = 0], mesh_buffers(mesh))
    ELSE [hp EXCEPT !.strong[mesh.id] = @ - 1]

\* an AccelerationStructureData goes out of scope: the struct has no Drop
\* ("TODO: destroy"), so its fields are dropped in order, _buffer and then
\* mesh, and _structure is not destroyed
drop_AccelerationStructureData(hp, blas) ==
    LET h1 == drop_Buffer(hp, <<"as_storage", blas.handle>>)
    IN  IF is_some(blas.mesh) THEN drop_Rc(h1, unwrap(blas.mesh)) ELSE h1

\* a Vec<(AccelerationStructureData, [f32; 12])> goes out of scope
RECURSIVE drop_bottomlevel_as(_, _)
drop_bottomlevel_as(hp, pairs) ==
    IF pairs = <<>> THEN hp
    ELSE drop_bottomlevel_as(drop_AccelerationStructureData(hp, Head(pairs)[1]), Tail(pairs))

\* a TopLevelAccelerationStructure goes out of scope: no Drop either; _buffer
\* and then bottomlevel_as are dropped and structure is not destroyed
drop_TopLevelAccelerationStructure(hp, tlas) ==
    drop_bottomlevel_as(drop_Buffer(hp, <<"as_storage", tlas.structure>>), tlas.bottomlevel_as)

\* the device creates an acceleration structure: it is named by the least
\* number naming no structure that exists
new_acceleration_structure(accel) ==
    CHOOSE k \in 0..Cardinality(accel) :
        /\ acceleration_structure_device_address(k) \notin accel
        /\ \A j \in 0..(k - 1) : acceleration_structure_device_address(j) \in accel

\* the Buffers a build made, named after the structure built
built_buffers(kinds, handle) == [j \in 1..Len(kinds) |-> <<kinds[j], handle>>]

\* the locals of a build go out of scope in reverse order of declaration
Reverse(q) == [j \in 1..Len(q) |-> q[Len(q) + 1 - j]]

\* the transform set_meshes gives mesh i (0-based) of its list
transform_of(i) == <<1, 0, 0, 100 * i, 0, 1 + i, 0, 0, 0, 0, 1, 0>>

retain_mesh_mutant_none(hp, mesh) == hp

\* `mesh: Some(Rc::clone(&mesh))`: the built structure keeps its mesh alive
retain_mesh(hp, mesh) == clone_Rc(hp, mesh)

\* one build_bottomlevel(cmd, device, Rc::clone(m), ..) of set_meshes: the
\* objects after the call returned and its result
bottomlevel_build(hp, mesh, fault) ==
    LET k == new_acceleration_structure(hp.accel)
        handle == acceleration_structure_device_address(k)
        out == build_bottomlevel(mesh, fault, k)
        made == built_buffers(out.buffers, handle)
        h1 == clone_Rc(hp, mesh)
        h2 == [h1 EXCEPT !.buffers = @ \cup {made[j] : j \in 1..Len(made)},
                         !.accel = IF out.accel THEN @ \cup {handle} ELSE @,
                         !.log = Append(@, Segment("build_bottomlevel",
                                                   IF out.accel THEN <<"as", handle>>
                                                   ELSE NoObject,
                                                   out.calls,
                                                   IF out.result = "ok" THEN "none" ELSE fault,
                                                   made))]
        \* the build command reads the vertex and index data and works on the
        \* scratch and storage buffers
        q == build_submitted(h2, out,
                             {made[j] : j \in 1..Len(made)}
                             \cup {<<a, mesh.id>> : a \in mesh.buffers \cap {"Position", "Index"}})
        \* Ok: Rc::clone(&mesh) goes into the struct, scratch_buffer and the
        \* parameter mesh are dropped; Err: every local and mesh are dropped
        h3 == IF out.result = "ok"
              THEN drop_Rc(drop_Buffer(retain_mesh(q, mesh), <<"scratch", handle>>), mesh)
              ELSE drop_Rc(drop_Buffers(q, Reverse(made)), mesh)
    IN  [hp |-> h3, out |-> out]

\* the builds of meshes.iter().enumerate().flat_map(..) from mesh i on; list
\* is the vector collected so far
RECURSIVE bottomlevel_builds(_, _, _, _, _)
bottomlevel_builds(hp, meshes, faults, i, list) ==
    IF i > Len(meshes) THEN [hp |-> hp, list |-> list]
    ELSE CHOOSE r \in
             { bottomlevel_builds(b.hp, meshes, faults, i + 1,
                                  IF b.out.result = "ok"
                                  THEN Append(list, <<unwrap(b.out.blas), transform_of(i - 1)>>)
                                  ELSE list) :
                 b \in {bottomlevel_build(hp, meshes[i], faults[i])} } : TRUE

\* build_toplevel(cmd, device, bottomlevel_as, ..): the objects after the call
\* returned (or unwound) and its result
toplevel_build(hp, bottomlevel_as, fault, attributes_per_instance) ==
    LET k == new_acceleration_structure(hp.accel)
        handle == acceleration_structure_device_address(k)
        out == build_toplevel(bottomlevel_as, fault, attributes_per_instance, k)
        made == built_buffers(out.buffers, handle)
        h1 == [hp EXCEPT !.buffers = @ \cup {made[j] : j \in 1..Len(made)},
                         !.accel = IF out.accel THEN @ \cup {handle} ELSE @,
                         !.log = Append(@, Segment("build_toplevel",
                                                   IF out.accel THEN <<"as", handle>>
                                                   ELSE NoObject,
                                                   out.calls,
                                                   IF out.result = "ok" THEN "none" ELSE fault,
                                                   made))]
        \* the build command reads the instances, which name the bottom-level
        \* structures by address, and works on the scratch and storage buffers
        q == build_submitted(h1, out,
                             {made[j] : j \in 1..Len(made)}
                             \cup {<<"as_storage", bottomlevel_as[j][1].handle>> :
                                      j \in 1..Len(bottomlevel_as)})
        \* Ok: scratch_buffer is dropped at the end of its block and
        \* instance_buffer at the end of the function; otherwise every local
        \* and then the parameter bottomlevel_as are dropped
        h2 == IF out.result = "ok"
              THEN drop_Buffers(q, << <<"scratch", handle>>, <<"instances", handle>> >>)
              ELSE drop_bottomlevel_as(drop_Buffers(q, Reverse(made)), bottomlevel_as)
    IN  [hp |-> h2, out |-> out]

(***************************************************************************)
(* Shader binding table assembly (set_resolution, the `let sbt = {..}`)    *)
(***************************************************************************)
\* Cursor<&mut Vec<u8>>::write of buf at byte offset pos: bytes beyond the
\* vector's end extend it
cursor_write(data, pos, buf) ==
    [k \in 1..Max(Len(data), pos + Len(buf)) |->
        IF k > pos /\ k <= pos + Len(buf) THEN buf[k - pos]
        ELSE IF k <= Len(data) THEN data[k] ELSE 0]

\* RayTrace::num_instances
num_instances(tlas_opt) ==
    IF is_some(tlas_opt) THEN Len(bottomlevel_as_of(unwrap(tlas_opt))) ELSE 0

\* let table_size = aligned_size(raygen_data.len()) + num_instances *
\* aligned_size(handle_size + 2 * NUM_ATTRIBUTES) + aligned_size(missdata.len())
table_size_of(props, n) ==
    wrap32(aligned_size(props.shader_group_handle_size, props.shader_group_base_alignment)
           + n * aligned_size(wrap32(props.shader_group_handle_size + 2 * NUM_ATTRIBUTES),
                              props.shader_group_base_alignment)
           + aligned_size(props.shader_group_handle_size, props.shader_group_base_alignment))

\* one `written += cur.write(buf)`: the bytes land at the cursor, which stands
\* at `written`; the record log notes the bytes under the record's offset
write_bytes(st, buf) ==
    [st EXCEPT !.data = cursor_write(st.data, st.written, buf),
               !.written = st.written + Len(buf),
               !.records[Len(st.records)].bytes = @ \o buf]

\* a record begins at the cursor
begin_record(st) ==
    [st EXCEPT !.records = Append(@, [offset |-> st.written, bytes |-> <<>>])]

\* written = aligned_size(written as u32, base_alignment); cur.set_position(written)
align_cursor(st, props) ==
    [st EXCEPT !.written = aligned_size(wrap32(st.written), props.shader_group_base_alignment)]

hit_record_mutant_swapped(st, i, mesh, chit_data, props) ==
    LET h == props.shader_group_handle_size
        s1 == write_bytes(begin_record(st), SubSeq(chit_data, (i - 1) * h + 1, i * h))
    IN  IF normals_device_address(mesh) = None
        THEN [s1 EXCEPT !.error = "No normals found on mesh"]
        ELSE LET s2 == write_bytes(s1, to_le_bytes(unwrap(normals_device_address(mesh))))
             IN  IF indices_device_address(mesh) = None
                 THEN [s2 EXCEPT !.error = "No indices found on mesh"]
                 ELSE align_cursor(
                          write_bytes(s2, to_le_bytes(unwrap(indices_device_address(mesh)))),
                          props)

\* one turn of the loop over toplevel_as.meshes().iter().enumerate(); i is 1-based
hit_record(st, i, mesh, chit_data, props) ==
    LET h == props.shader_group_handle_size
        s1 == write_bytes(begin_record(st), SubSeq(chit_data, (i - 1) * h + 1, i * h))
    IN  IF indices_device_address(mesh) = None
        THEN [s1 EXCEPT !.error = "No indices found on mesh"]
        ELSE LET s2 == write_bytes(s1, to_le_bytes(unwrap(indices_device_address(mesh))))
             IN  IF normals_device_address(mesh) = None
                 THEN [s2 EXCEPT !.error = "No normals found on mesh"]
                 ELSE align_cursor(
                          write_bytes(s2, to_le_bytes(unwrap(normals_device_address(mesh)))),
                          props)

RECURSIVE hit_records(_, _, _, _, _)
hit_records(st, i, meshes, chit_data, props) ==
    IF i > Len(meshes) \/ st.error # "" THEN st
    ELSE hit_records(hit_record(st, i, meshes[i], chit_data, props),
                     i + 1, meshes, chit_data, props)

\* the block computing `sbt` up to the assert_eq!, given a present TLAS
sbt_assembly(props, tlas) ==
    LET h == props.shader_group_handle_size
        n == num_instances(Some(tlas))
        raygen_data == shader_group_handles(0, 1, h)
        missdata == shader_group_handles(1, 1, h)
        chit_data == shader_group_handles(2, n, h)
        table_size == table_size_of(props, n)
        s0 == [data |-> [k \in 1..table_size |-> 0], written |-> 0,
               records |-> <<>>, error |-> ""]
        s1 == align_cursor(write_bytes(begin_record(s0), raygen_data), props)
        s2 == align_cursor(write_bytes(begin_record(s1), missdata), props)
        s3 == hit_records(s2, 1, meshes_of(tlas), chit_data, props)
    IN  [ result |-> IF s3.error # "" THEN "err"
                     ELSE IF s3.written # table_size THEN "panic" ELSE "ok",
          error |-> IF s3.error # "" THEN s3.error
                    ELSE IF s3.written # table_size
                         THEN "assertion failed: written == table_size" ELSE "",
          table_size |-> table_size,
          written |-> s3.written,
          table_data |-> s3.data,
          records |-> s3.records ]

(***************************************************************************)
(* State of the ray-tracing renderer (struct RayTrace) and of the calls    *)
(***************************************************************************)
VARIABLES
    rt_pipeline_properties, \* shader_group_handle_size, shader_group_base_alignment
    toplevel_as,            \* Option<TopLevelAccelerationStructure>
    sbt,                    \* Option<Buffer>: the table's size, bytes, address, records
                            \* and the pipeline instance whose handles it holds
    pipeline,               \* Option<vk::Pipeline>: the instance, its number of groups
    pipeline_layout,        \* Option<vk::PipelineLayout>
    image_views,            \* Vec<vk::ImageView>: one per swapchain image
    descriptor_set,         \* Option<vk::DescriptorSet>
    descriptor_pool,        \* Option<vk::DescriptorPool>
    size,                   \* vk::Extent2D
    uniforms,               \* Option<PushConstants>: the extent they were made from
    last,                   \* the last call of the renderer, how it returned and how
                            \* many of its driver calls the driver rejected
    sbt_build,              \* the locals of the last SBT assembly reached
    trace_rays,             \* the cmd_trace_rays recorded by the last draw
    blas_call,              \* a call of build_bottomlevel: its arguments and result
    call,                   \* a call of a free function: its arguments and result
    meshes_calls,           \* the number of set_meshes calls made so far
    accel_live,             \* the acceleration structures created and not destroyed
    buffers_live,           \* the Buffers alive
    strong_count,           \* the strong count of each Rc<DeviceMesh>
    gpu_calls,              \* the GPU calls of the last call, in segments
    main_meshes,            \* main still holds its Vec<Rc<DeviceMesh>>
    renderer_live,          \* the RayTrace has not been dropped
    submitted,              \* the objects named by command buffers that were submitted
                            \* and that no successful wait has followed
    freed_in_use,           \* the objects the last call destroyed while submitted
    frame,                  \* the last frame of VulkanApp::draw: the image acquired,
                            \* the index given to draw_fn and what was presented
    renderers,              \* main's Vec<RendererImpl>: the kind of each renderer
    active_drawer_idx,      \* main's index of the renderer that draws
    needs_reload,           \* the AtomicBool the file watcher shares with the event loop
    control_flow,           \* *control_flow as the event loop's closure left it
    pc,                     \* where main is
    iteration,              \* the closure's run under way: what failed and what it drew
    unserved,               \* a shader file changed and no reload pass has started since
    cmd                     \* the command buffer main allocated for set_meshes

vars ==
    <<rt_pipeline_properties, toplevel_as, sbt, pipeline, pipeline_layout, image_views,
      descriptor_set, descriptor_pool, size, uniforms, last, sbt_build, trace_rays,
      blas_call, call, meshes_calls, accel_live, buffers_live, strong_count, gpu_calls,
      main_meshes, renderer_live, submitted, freed_in_use, frame,
      renderers, active_drawer_idx, needs_reload, control_flow, pc, iteration, unserved,
      cmd>>

\* the variables of main and of its event loop
main_vars ==
    <<renderers, active_drawer_idx, needs_reload, control_flow, pc, iteration, unserved, cmd>>

\* the objects of the device as a call finds them
Objects ==
    [accel |-> accel_live, buffers |-> buffers_live, strong |-> strong_count, log |-> <<>>,
     queue |-> [submitted |-> submitted, freed |-> {}]]

\* extents a resize may ask for
Extents == { [width |-> 800, height |-> 600] }

\* numbers of swapchain images
SwapchainImageCounts == {2}

\* where the driver may reject a call of set_resolution
ResolutionFaults ==
    {"none", "device_wait_idle", "descriptor_set_layout", "pipeline_layout", "pipeline",
     "raygen_handles", "miss_handles", "hit_handles", "sbt_buffer", "image_view",
     "descriptor_pool", "descriptor_sets"}

\* RayTrace::new
RayTrace_new(props) ==
    /\ rt_pipeline_properties = props
    /\ toplevel_as = None
    /\ sbt = None
    /\ pipeline = None
    /\ pipeline_layout = None
    /\ image_views = <<>>
    /\ descriptor_set = None
    /\ descriptor_pool = None
    /\ size = [width |-> 0, height |-> 0]
    /\ uniforms = None
    /\ last = [op |-> "new", result |-> "ok", error |-> "", given |-> 0, failed |-> 0, rejected |-> 0]
    /\ sbt_build = None
    /\ trace_rays = None
    /\ meshes_calls = 0

\* the renderers main makes: the rasterizer, the ray tracer where the device
\* supports ray tracing, and the colour sine
renderers_new(raytracing_support) ==
    <<"Raster">> \o (IF raytracing_support THEN <<"RayTrace">> ELSE <<>>) \o <<"ColorSine">>

\* main's locals after `let mut renderers = vec![raster]`; the locals declared
\* later hold their first values
Main_new ==
    /\ renderers = <<"Raster">>
    /\ active_drawer_idx = 0
    /\ needs_reload = FALSE
    /\ control_flow = "Poll"
    /\ pc = "renderers"
    /\ iteration = [failed |-> FALSE, frame_after_failure |-> FALSE, event |-> "none"]
    /\ unserved = FALSE
    /\ cmd = "none"

\* main before set_meshes: every DeviceMesh was made by DeviceMesh::new and
\* put into one Rc; no acceleration structure exists
Meshes_new ==
    /\ accel_live = {}
    /\ buffers_live = UNION { {mesh_buffers(m)[j] : j \in 1..Len(mesh_buffers(m))} :
                                m \in DeviceMeshes }
    /\ strong_count = [id \in {m.id : m \in DeviceMeshes} |-> 1]
    /\ gpu_calls = <<>>
    /\ main_meshes = TRUE
    /\ renderer_live = TRUE
    /\ call = None
    /\ submitted = {}
    /\ freed_in_use = {}
    /\ frame = None
    /\ Main_new

Init ==
    /\ \E h \in HandleSizes, a \in BaseAlignments :
          RayTrace_new([shader_group_handle_size |-> h, shader_group_base_alignment |-> a])
    /\ Meshes_new
    /\ blas_call = None

\* a panic ends the process; a dropped renderer takes no call
Running == last.result # "panic" /\ renderer_live

\* the driver answers drawn for the builds of a set_meshes call
SetMeshesBlasFaults == {"as_buffer", "submit", "wait"}

SetMeshesTlasFaults == {"none", "instance_buffer", "submit", "wait"}

\* the driver's answers to the BLAS builds of one set_meshes call
BlasFaultAssignments(n) ==
    { [i \in 1..n |-> IF i \in F THEN f ELSE "none"] :
        F \in SUBSET (1..n), f \in SetMeshesBlasFaults }

\* meshes.iter().enumerate().flat_map(|(i, m)| Some((build_bottomlevel(..).ok()?,
\* transform))).collect(): a failed build yields None and is left out
bottomlevel_list(meshes, faults) ==
    bottomlevel_builds(Objects, meshes, faults, 1, <<>>).list

\* the builds of a set_meshes call: the result of build_toplevel and the
\* objects after `self.toplevel_as = Some(..)`, which drops the structure held
\* before
set_meshes_builds(meshes, faults, tlas_fault) ==
    CHOOSE r \in
        { [built |-> top.out,
           hp |-> IF top.out.result = "ok" /\ is_some(toplevel_as)
                  THEN drop_TopLevelAccelerationStructure(top.hp, unwrap(toplevel_as))
                  ELSE top.hp] :
            top \in { toplevel_build(blas.hp, blas.list, tlas_fault, NUM_ATTRIBUTES) :
                        blas \in {bottomlevel_builds(Objects, meshes, faults, 1, <<>>)} } } : TRUE

\* RayTrace::set_meshes
set_meshes(meshes, faults, tlas_fault) ==
    \E r \in {set_meshes_builds(meshes, faults, tlas_fault)} :
    LET built == r.built
        hp == r.hp
    IN  /\ Running
        /\ accel_live' = hp.accel
        /\ buffers_live' = hp.buffers
        /\ strong_count' = hp.strong
        /\ gpu_calls' = hp.log
        /\ submitted' = hp.queue.submitted
        /\ freed_in_use' = hp.queue.freed
        /\ meshes_calls' = meshes_calls + 1
        /\ toplevel_as' = IF built.result = "ok" THEN built.tlas ELSE toplevel_as
        /\ last' = [op |-> "set_meshes", result |-> built.result, error |-> built.error,
                    given |-> Len(meshes),
                    failed |-> Cardinality({i \in 1..Len(meshes) : faults[i] # "none"}),
                    rejected |-> Cardinality({i \in 1..Len(meshes) : faults[i] # "none"})
                                 + (IF tlas_fault # "none" THEN 1 ELSE 0)]
        /\ trace_rays' = None
        /\ sbt_build' = None
        /\ UNCHANGED <<rt_pipeline_properties, sbt, pipeline, pipeline_layout, image_views,
                       descriptor_set, descriptor_pool, size, uniforms, blas_call, call,
                       main_meshes, renderer_live, frame>>

\* the point at which a set_resolution call ends, given the driver's answer
\* and the outcome of the SBT assembly (None without a TLAS)
resolution_end(fault, asm_opt) ==
    IF fault \in {"device_wait_idle", "descriptor_set_layout", "pipeline_layout", "pipeline",
                  "raygen_handles", "miss_handles", "hit_handles"}
    THEN fault
    ELSE IF ~is_some(asm_opt) THEN "no_tlas"
    ELSE IF unwrap(asm_opt).result # "ok" THEN "assembly"
    ELSE IF fault \in {"sbt_buffer", "image_view", "descriptor_pool", "descriptor_sets"}
    THEN fault
    ELSE "done"

sbt_stored_mutant_early(end) ==
    end \in {"assembly", "sbt_buffer", "image_view", "descriptor_pool", "descriptor_sets", "done"}

\* the ends of set_resolution that lie after `self.sbt = Some(sbt)`
sbt_stored(end) ==
    end \in {"image_view", "descriptor_pool", "descriptor_sets", "done"}

pipeline_stored_mutant_early(end) ==
    end \in {"raygen_handles", "miss_handles", "hit_handles", "no_tlas", "assembly",
             "sbt_buffer", "image_view", "descriptor_pool", "descriptor_sets", "done"}

\* the ends of set_resolution that lie after `self.pipeline = Some(pipeline);
\* self.pipeline_layout = Some(pipeline_layout)`
pipeline_stored(end) ==
    end \in {"image_view", "descriptor_pool", "descriptor_sets", "done"}

\* create_ray_tracing_pipelines returns a new pipeline instance: it is named by
\* the least number that names no pipeline instance the state refers to
new_pipeline(used) ==
    CHOOSE i \in 1..(Cardinality(used) + 1) :
        i \notin used /\ \A j \in 1..(i - 1) : j \in used

\* the pipeline instances the renderer's state refers to
pipelines_in_use ==
    (IF is_some(pipeline) THEN {unwrap(pipeline).id} ELSE {})
    \cup (IF is_some(sbt) THEN {unwrap(sbt).pipeline} ELSE {})

\* the SBT assembly set_resolution runs on the renderer's TLAS
assembly_of(props, tlas_opt) ==
    IF is_some(tlas_opt) THEN Some(sbt_assembly(props, unwrap(tlas_opt))) ELSE None

\* destroy_images up to its device_wait_idle
destroy_images_calls ==
    (IF is_some(pipeline_layout) THEN <<"destroy_pipeline_layout">> ELSE <<>>)
    \o (IF is_some(pipeline) THEN <<"destroy_pipeline">> ELSE <<>>)
    \o <<"device_wait_idle">>

\* the views drained by destroy_images, as the queue may hold them
destroy_image_views(hp) ==
    [hp EXCEPT !.queue =
        [submitted |-> @.submitted,
         freed |-> @.freed \cup ({<<"image_view", image_views[k]>> : k \in 1..Len(image_views)}
                                 \cap @.submitted)]]

\* destroy_images on the device's objects: the views go once device_wait_idle
\* returned success, and none of them when it returned an error
destroy_images(hp, wait_ok) ==
    IF wait_ok THEN destroy_image_views(queue_wait_idle(hp, TRUE)) ELSE hp

\* for img in self.image_views.drain(..) { destroy_image_view }
destroy_image_views_calls == [k \in 1..Len(image_views) |-> "destroy_image_view"]

\* destroy_descriptor_sets
destroy_descriptor_sets_calls ==
    IF is_some(descriptor_pool)
    THEN (IF is_some(descriptor_set) THEN <<"free_descriptor_sets">> ELSE <<>>)
         \o <<"destroy_descriptor_pool">>
    ELSE <<>>

resolution_calls_mutant_rebuild(end, n_images) ==
    destroy_images_calls \o build_toplevel(<<>>, "none", NUM_ATTRIBUTES, 0).calls

\* the GPU calls of a set_resolution call that ends at `end`
resolution_calls(end, n_images) ==
    LET c0 == destroy_images_calls
        c1 == c0 \o destroy_image_views_calls \o destroy_descriptor_sets_calls
                 \o <<"create_descriptor_set_layout">>
        c2 == c1 \o <<"create_pipeline_layout">>
        c3 == c2 \o <<"create_ray_tracing_pipelines">>
        c4 == c3 \o <<"get_ray_tracing_shader_group_handles">>
        c5 == c4 \o <<"get_ray_tracing_shader_group_handles">>
        c6 == c5 \o <<"get_ray_tracing_shader_group_handles">>
        c7 == c6 \o Buffer_new(end = "sbt_buffer", TRUE).calls
        c8 == c7 \o [k \in 1..(IF end = "image_view" THEN 1 ELSE n_images) |->
                        "create_image_view"]
        c9 == c8 \o <<"create_descriptor_pool">>
        c10 == c9 \o <<"allocate_descriptor_sets">>
        c11 == c10 \o <<"destroy_descriptor_set_layout">>
    IN  CASE end = "device_wait_idle" -> c0
          [] end = "descriptor_set_layout" -> c1
          [] end = "pipeline_layout" -> c2
          [] end = "pipeline" -> c3
          [] end = "raygen_handles" -> c4
          [] end = "miss_handles" -> c5
          [] end \in {"hit_handles", "no_tlas", "assembly"} -> c6
          [] end = "sbt_buffer" -> c7
          [] end = "image_view" -> c8
          [] end = "descriptor_pool" -> c9
          [] end = "descriptor_sets" -> c10
          [] end = "done" -> c11

\* the Buffer made for a new SBT, named after the new pipeline
new_sbt_buffer == <<"sbt", new_pipeline(pipelines_in_use)>>

\* the objects after a set_resolution call that ends at `end`: Buffer::new
\* made the SBT's Buffer, and `self.sbt = Some(sbt)` dropped the one held
resolution_objects(end, n_images) ==
    LET made == IF sbt_stored(end) THEN <<new_sbt_buffer>> ELSE <<>>
        h1 == [Objects EXCEPT
                  !.buffers = @ \cup {made[j] : j \in 1..Len(made)},
                  !.log = <<Segment("set_resolution", NoObject, resolution_calls(end, n_images),
                                    IF end \in ResolutionFaults \ {"none"} THEN end ELSE "none",
                                    made)>>]
        h2 == destroy_images(h1, end # "device_wait_idle")
    IN  IF sbt_stored(end) /\ is_some(sbt) THEN drop_Buffer(h2, unwrap(sbt).buffer) ELSE h2

created_image_views_mutant_appended(n_images) ==
    image_views \o [k \in 1..n_images |-> k]

\* self.image_views = images.iter().map(create_image_view).collect(): view k
\* is the view of swapchain image k
created_image_views(n_images) == [k \in 1..n_images |-> k]

\* RayTrace::set_resolution; asm_opt is the outcome of its SBT assembly on the
\* renderer's TLAS, assembly_of(rt_pipeline_properties, toplevel_as)
set_resolution(new_size, n_images, fault, asm_opt) ==
    LET end == resolution_end(fault, asm_opt)
        asm == unwrap(asm_opt)
        assembled == end \in {"assembly", "sbt_buffer"} \/ sbt_stored(end)
        destroyed == end # "device_wait_idle"
        result == IF end = "done" THEN "ok"
                  ELSE IF end \in {"pipeline_layout", "no_tlas", "image_view"} THEN "panic"
                  ELSE IF end = "assembly" THEN asm.result
                  ELSE "err"
        made == new_pipeline(pipelines_in_use)
        error == IF end = "done" THEN ""
                 ELSE IF end = "assembly" THEN asm.error
                 ELSE IF end = "no_tlas" THEN "called Option::unwrap() on a None value"
                 ELSE "vk"
    IN  /\ Running
        \* destroy_images: the layout and the pipeline go before the wait
        /\ pipeline' = IF pipeline_stored(end)
                       THEN Some([id |-> made, groups |-> 2 + num_instances(toplevel_as)])
                       ELSE None
        /\ pipeline_layout' = IF pipeline_stored(end) THEN Some("layout") ELSE None
        /\ image_views' = IF end \in {"descriptor_pool", "descriptor_sets", "done"}
                          THEN created_image_views(n_images)
                          ELSE IF destroyed THEN <<>> ELSE image_views
        \* destroy_descriptor_sets frees the set only together with its pool
        /\ descriptor_pool' = IF end = "done" THEN Some("pool")
                              ELSE IF destroyed THEN None ELSE descriptor_pool
        /\ descriptor_set' = IF end = "done" THEN Some("set")
                             ELSE IF destroyed /\ is_some(descriptor_pool) THEN None
                             ELSE descriptor_set
        \* update_push_constants runs before self.size = size
        /\ uniforms' = IF destroyed THEN Some([extent |-> size]) ELSE uniforms
        /\ size' = IF destroyed THEN new_size ELSE size
        /\ sbt' = IF sbt_stored(end)
                  THEN Some([size |-> asm.table_size, data |-> asm.table_data,
                             device_address |-> sbt_device_address,
                             records |-> asm.records,
                             pipeline |-> made,
                             buffer |-> new_sbt_buffer])
                  ELSE sbt
        /\ sbt_build' = IF assembled THEN Some(asm) ELSE None
        /\ last' = [op |-> "set_resolution", result |-> result, error |-> error,
                    given |-> 0, failed |-> 0,
                    rejected |-> IF fault # "none" /\ end = fault THEN 1 ELSE 0]
        /\ trace_rays' = None
        /\ \E hp \in {resolution_objects(end, n_images)} :
              /\ buffers_live' = hp.buffers
              /\ gpu_calls' = hp.log
              /\ submitted' = hp.queue.submitted
              /\ freed_in_use' = hp.queue.freed
        /\ UNCHANGED <<rt_pipeline_properties, toplevel_as, blas_call, call, meshes_calls,
                       accel_live, strong_count, main_meshes, renderer_live, frame>>

\* vk::StridedDeviceAddressRegionKHR
Region(address, region_size, stride) ==
    [device_address |-> address, size |-> region_size, stride |-> stride]

\* the regions draw hands to cmd_trace_rays
trace_rays_regions(props, sbt_address, n) ==
    LET h == props.shader_group_handle_size
        aligned == aligned_size(h, props.shader_group_base_alignment)
    IN  [ raygen |-> Region(sbt_address, h, aligned),
          miss |-> Region(sbt_address + aligned, aligned, h),
          hit |-> Region(sbt_address + 2 * aligned, aligned * n, h),
          callable |-> Region(0, 0, 0) ]

\* the commands draw issues before it returns or panics on an unwrap
draw_calls(swapchain_idx) ==
    LET c1 == <<"update_descriptor_sets">>
        c2 == c1 \o <<"cmd_bind_pipeline">>
        c3 == c2 \o <<"cmd_bind_descriptor_sets">>
        c4 == c3 \o <<"cmd_push_constants", "cmd_trace_rays">>
    IN  IF ~is_some(toplevel_as) THEN <<>>
        ELSE IF ~is_some(descriptor_set) \/ swapchain_idx >= Len(image_views) THEN <<>>
        ELSE IF ~is_some(sbt) \/ ~is_some(pipeline) THEN c1
        ELSE IF ~is_some(pipeline_layout) THEN c2
        ELSE IF ~is_some(uniforms) THEN c3
        ELSE c4

\* RayTrace::draw
draw(swapchain_idx) ==
    LET recorded == /\ is_some(descriptor_set)
                    /\ swapchain_idx < Len(image_views)
                    /\ is_some(sbt)
                    /\ is_some(pipeline)
                    /\ is_some(pipeline_layout)
                    /\ is_some(uniforms)
    IN  /\ Running
        /\ IF ~is_some(toplevel_as)
           THEN /\ trace_rays' = None
                /\ last' = [op |-> "draw", result |-> "ok", error |-> "",
                            given |-> 0, failed |-> 0, rejected |-> 0]
           ELSE IF recorded
           THEN /\ trace_rays' =
                       Some([ regions |-> trace_rays_regions(rt_pipeline_properties,
                                              unwrap(sbt).device_address,
                                              num_instances(toplevel_as)),
                              width |-> size.width, height |-> size.height,
                              pipeline |-> unwrap(pipeline).id,
                              sbt_pipeline |-> unwrap(sbt).pipeline,
                              sbt_hit_records |-> Len(unwrap(sbt).records) - 2 ])
                /\ last' = [op |-> "draw", result |-> "ok", error |-> "",
                            given |-> 0, failed |-> 0, rejected |-> 0]
           ELSE /\ trace_rays' = None
                /\ last' = [op |-> "draw", result |-> "panic",
                            error |-> "called Option::unwrap() on a None value",
                            given |-> 0, failed |-> 0, rejected |-> 0]
        /\ sbt_build' = None
        /\ gpu_calls' = <<Segment("draw", NoObject, draw_calls(swapchain_idx), "none", <<>>)>>
        /\ UNCHANGED <<rt_pipeline_properties, toplevel_as, sbt, pipeline, pipeline_layout,
                       image_views, descriptor_set, descriptor_pool, size, uniforms,
                       blas_call, call, meshes_calls, accel_live, buffers_live, strong_count,
                       main_meshes, renderer_live>>

RECURSIVE drop_Rcs(_, _)
\* a Vec<Rc<DeviceMesh>> goes out of scope
drop_Rcs(hp, meshes) ==
    IF meshes = <<>> THEN hp ELSE drop_Rcs(drop_Rc(hp, Head(meshes)), Tail(meshes))

\* main's meshes in the order of its vector
main_meshes_vec ==
    [j \in 1..Cardinality(DeviceMeshes) |-> CHOOSE m \in DeviceMeshes : m.id = j]

\* main's Vec<Rc<DeviceMesh>> goes out of scope: `drop(meshes)` once the
\* renderers have their meshes, or main returning the error of set_meshes
drop_meshes ==
    /\ main_meshes
    /\ renderer_live
    /\ \E hp \in {drop_Rcs(Objects, main_meshes_vec)} :
          /\ buffers_live' = hp.buffers
          /\ strong_count' = hp.strong
          /\ gpu_calls' = hp.log
          /\ submitted' = hp.queue.submitted
          /\ freed_in_use' = hp.queue.freed
    /\ main_meshes' = FALSE
    /\ UNCHANGED <<rt_pipeline_properties, toplevel_as, sbt, pipeline, pipeline_layout,
                   image_views, descriptor_set, descriptor_pool, size, uniforms, last,
                   sbt_build, trace_rays, blas_call, call, meshes_calls, accel_live,
                   renderer_live, frame>>

\* the objects after the RayTrace went out of scope: Drop for RayTrace runs
\* destroy_images, ignoring its error, and destroy_descriptor_sets; then the
\* fields are dropped, toplevel_as before sbt
drop_RayTrace(wait_fails) ==
    LET calls == destroy_images_calls
                 \o (IF wait_fails THEN <<>> ELSE destroy_image_views_calls)
                 \o destroy_descriptor_sets_calls
        h1 == [Objects EXCEPT
                  !.log = <<Segment("RayTrace::drop", NoObject, calls,
                                    IF wait_fails THEN "device_wait_idle" ELSE "none", <<>>)>>]
        \* `let _ = self.destroy_images()`: the views go only after the wait
        \* returned success, the fields go in either case
        w == destroy_images(h1, ~wait_fails)
        h2 == IF is_some(toplevel_as)
              THEN drop_TopLevelAccelerationStructure(w, unwrap(toplevel_as))
              ELSE w
    IN  IF is_some(sbt) THEN drop_Buffer(h2, unwrap(sbt).buffer) ELSE h2

\* the RayTrace goes out of scope (the event loop ends, or main unwinds)
drop_renderer(wait_fails) ==
    /\ renderer_live
    /\ ~main_meshes
    /\ \E hp \in {drop_RayTrace(wait_fails)} :
          /\ buffers_live' = hp.buffers
          /\ strong_count' = hp.strong
          /\ gpu_calls' = hp.log
          /\ submitted' = hp.queue.submitted
          /\ freed_in_use' = hp.queue.freed
    /\ renderer_live' = FALSE
    /\ toplevel_as' = None
    /\ sbt' = None
    /\ pipeline' = None
    /\ pipeline_layout' = None
    /\ image_views' = IF wait_fails THEN image_views ELSE <<>>
    /\ descriptor_set' = IF is_some(descriptor_pool) THEN None ELSE descriptor_set
    /\ descriptor_pool' = None
    /\ sbt_build' = None
    /\ trace_rays' = None
    /\ UNCHANGED <<rt_pipeline_properties, size, uniforms, last, blas_call, call, meshes_calls,
                   accel_live, main_meshes, frame>>

SetMeshes ==
    /\ meshes_calls < MaxSetMeshesCalls
    /\ main_meshes
    /\ \E meshes \in SeqsUpTo(DeviceMeshes, MaxMeshes) :
          \E faults \in BlasFaultAssignments(Len(meshes)), tlas_fault \in SetMeshesTlasFaults :
              set_meshes(meshes, faults, tlas_fault)
    /\ UNCHANGED main_vars

SetResolution ==
    /\ \E new_size \in Extents, n_images \in SwapchainImageCounts :
          \E asm_opt \in {assembly_of(rt_pipeline_properties, toplevel_as)} :
              \E fault \in ResolutionFaults :
                  set_resolution(new_size, n_images, fault, asm_opt)
    /\ UNCHANGED main_vars

\* the renderer's draw called with a command buffer that is not submitted
Draw ==
    /\ \E swapchain_idx \in 0..1 : draw(swapchain_idx)
    /\ freed_in_use' = {}
    /\ UNCHANGED <<submitted, frame>>
    /\ UNCHANGED main_vars

Next == SetMeshes \/ SetResolution \/ Draw

Spec == Init /\ [][Next]_vars

(***************************************************************************)
(* The renderer behind the Renderer trait: its methods called in any order *)
(***************************************************************************)
InitRenderer ==
    /\ RayTrace_new([shader_group_handle_size |-> 32, shader_group_base_alignment |-> 64])
    /\ Meshes_new
    /\ blas_call = None

RendererSetMeshes ==
    /\ meshes_calls < MaxRendererSetMeshesCalls
    /\ \E meshes \in SeqsUpTo(DeviceMeshes, MaxMeshes) :
          \E faults \in {[i \in 1..Len(meshes) |-> "none"]}, tlas_fault \in SetMeshesTlasFaults :
              set_meshes(meshes, faults, tlas_fault)
    /\ UNCHANGED main_vars

NextRenderer == RendererSetMeshes \/ SetResolution \/ Draw

SpecRenderer == InitRenderer /\ [][NextRenderer]_vars

(***************************************************************************)
(* The renderer from its construction to its end: main's one set_meshes,   *)
(* `drop(meshes)`, the event loop's calls and the drop of the RayTrace     *)
(***************************************************************************)
DropMeshes == meshes_calls > 0 /\ drop_meshes /\ UNCHANGED main_vars

DropRenderer == (\E wait_fails \in BOOLEAN : drop_renderer(wait_fails)) /\ UNCHANGED main_vars

NextLifetime == SetMeshes \/ SetResolution \/ Draw \/ DropMeshes \/ DropRenderer

SpecLifetime == InitRenderer /\ [][NextLifetime]_vars

(***************************************************************************)
(* The frame loop: Event::MainEventsCleared runs VulkanApp::draw with the  *)
(* active renderer's draw as its draw_fn                                   *)
(***************************************************************************)
\* SwapchainOptions::frames_in_flight(3)
FRAMES_IN_FLIGHT == 3

\* what the command buffer draw recorded names: the output image's view, the
\* shader binding table, the structures traced and the index and normal
\* buffers whose addresses the hit records hold
draw_refs(swapchain_idx) ==
    LET tlas == unwrap(toplevel_as)
        meshes == meshes_of(tlas)
    IN  {<<"image_view", image_views[swapchain_idx + 1]>>, unwrap(sbt).buffer,
         <<"as_storage", tlas.structure>>}
        \cup {<<"as_storage", tlas.bottomlevel_as[j][1].handle>> :
                 j \in 1..Len(tlas.bottomlevel_as)}
        \cup {<<a, meshes[j].id>> : a \in {"Index", "Normals"}, j \in 1..Len(meshes)}

\* the usize VulkanApp::draw hands to draw_fn: acq.frame_index
draw_fn_index(acq) == acq.frame_index

\* VulkanApp::draw with main's closure; acq is what Swapchain::acquire returned.
\* A panic of draw_fn unwinds before end_command_buffer.
VulkanApp_draw(acq) ==
    /\ draw(draw_fn_index(acq))
    /\ frame' = Some([ image_index |-> acq.image_index,
                       frame_index |-> acq.frame_index,
                       swapchain_idx |-> draw_fn_index(acq),
                       views |-> Len(image_views),
                       image_view |-> IF is_some(trace_rays')
                                      THEN Some(image_views[draw_fn_index(acq) + 1])
                                      ELSE None,
                       calls |-> <<"acquire", "begin_command_buffer", "draw_fn">>
                                 \o (IF last'.result = "ok"
                                     THEN <<"end_command_buffer", "queue_submit",
                                            "queue_present">>
                                     ELSE <<>>),
                       presented |-> IF last'.result = "ok"
                                     THEN Some(acq.image_index) ELSE None ])
    /\ submitted' = IF is_some(trace_rays')
                    THEN submitted \cup draw_refs(draw_fn_index(acq))
                    ELSE submitted
    /\ freed_in_use' = {}

\* a frame: the swapchain hands out one of its images and one of the frames
\* in flight
Frame ==
    /\ \E n_images \in SwapchainImageCounts :
          \E image_index \in 0..(n_images - 1), frame_index \in 0..(FRAMES_IN_FLIGHT - 1) :
              VulkanApp_draw([image_index |-> image_index, frame_index |-> frame_index])
    /\ UNCHANGED main_vars

\* the driver's answers the queue's state depends on: a build's
\* queue_wait_idle fails or every call succeeds
FrameBlasFaults(n) ==
    { [i \in 1..n |-> IF i = failing THEN "wait" ELSE "none"] : failing \in 0..n }

FrameTlasFaults == {"none", "wait"}

\* main's set_meshes before the event loop starts
FrameSetMeshes ==
    /\ meshes_calls < MaxSetMeshesCalls
    /\ main_meshes
    /\ \E meshes \in SeqsUpTo(DeviceMeshes, MaxMeshes) :
          \E faults \in FrameBlasFaults(Len(meshes)), tlas_fault \in FrameTlasFaults :
              set_meshes(meshes, faults, tlas_fault)
    /\ UNCHANGED main_vars

\* a resize between frames: the wait of destroy_images fails or every call
\* succeeds
FrameSetResolution ==
    /\ \E new_size \in Extents, n_images \in SwapchainImageCounts :
          \E asm_opt \in {assembly_of(rt_pipeline_properties, toplevel_as)} :
              \E fault \in {"none", "device_wait_idle"} :
                  set_resolution(new_size, n_images, fault, asm_opt)
    /\ UNCHANGED main_vars

NextFrames == FrameSetMeshes \/ FrameSetResolution \/ Frame \/ DropMeshes \/ DropRenderer

SpecFrames == InitRenderer /\ [][NextFrames]_vars

(***************************************************************************)
(* build_bottomlevel on its own: any mesh, any driver answer               *)
(***************************************************************************)
InitBlas ==
    /\ RayTrace_new([shader_group_handle_size |-> 32, shader_group_base_alignment |-> 64])
    /\ Meshes_new
    /\ \E mesh \in AnyDeviceMeshes, fault \in BlasFaults, k \in 0..MaxMeshes :
          blas_call = [mesh |-> mesh, fault |-> fault, k |-> k, out |-> None]

BuildBottomlevel ==
    /\ blas_call.out = None
    /\ blas_call' = [blas_call EXCEPT
                        !.out = Some(build_bottomlevel(blas_call.mesh, blas_call.fault,
                                                       blas_call.k))]
    /\ UNCHANGED <<rt_pipeline_properties, toplevel_as, sbt, pipeline, pipeline_layout,
                   image_views, descriptor_set, descriptor_pool, size, uniforms, last,
                   sbt_build, trace_rays, meshes_calls, accel_live, buffers_live,
                   strong_count, gpu_calls, main_meshes, renderer_live, call,
                   submitted, freed_in_use, frame, main_vars>>

NextBlas == BuildBottomlevel

SpecBlas == InitBlas /\ [][NextBlas]_vars

(***************************************************************************)
(* find_memorytype_index on its own: any requirement, any device           *)
(***************************************************************************)
\* the property flags a memory type of a device may have
MemoryTypeFlags ==
    {0, DEVICE_LOCAL, HOST_VISIBLE, BitOr(HOST_VISIBLE, HOST_COHERENT),
     BitOr(DEVICE_LOCAL, BitOr(HOST_VISIBLE, HOST_COHERENT))}

\* the flags Buffer::new asks for
RequestedFlags == {DEVICE_LOCAL, BitOr(HOST_VISIBLE, HOST_COHERENT)}

\* [vk::MemoryType; VK_MAX_MEMORY_TYPES], of which the first
\* memory_type_count entries are valid
MemoryProperties ==
    { [memory_type_count |-> n, memory_types |-> t] :
        n \in 0..MaxMemoryTypes,
        t \in [1..MaxMemoryTypes -> [property_flags : MemoryTypeFlags]] }

InitMemory ==
    /\ RayTrace_new([shader_group_handle_size |-> 32, shader_group_base_alignment |-> 64])
    /\ Meshes_new
    /\ blas_call = None

FindMemorytypeIndex ==
    /\ call = None
    /\ \E bits \in 0..(2^MaxMemoryTypes - 1), memory_prop \in MemoryProperties,
          flags \in RequestedFlags :
          call' = Some([op |-> "find_memorytype_index",
                        memory_req |-> [memory_type_bits |-> bits],
                        memory_prop |-> memory_prop,
                        flags |-> flags,
                        out |-> find_memorytype_index([memory_type_bits |-> bits],
                                                      memory_prop, flags)])
    /\ UNCHANGED <<rt_pipeline_properties, toplevel_as, sbt, pipeline, pipeline_layout,
                   image_views, descriptor_set, descriptor_pool, size, uniforms, last,
                   sbt_build, trace_rays, blas_call, meshes_calls, accel_live, buffers_live,
                   strong_count, gpu_calls, main_meshes, renderer_live,
                   submitted, freed_in_use, frame, main_vars>>

NextMemory == FindMemorytypeIndex

SpecMemory == InitMemory /\ [][NextMemory]_vars

(***************************************************************************)
(* Buffer::new on its own: a run of calls on one device                    *)
(***************************************************************************)
\* devices whose memory types are device-local or host-visible and coherent
BufferDevices ==
    { [memory_type_count |-> MaxMemoryTypes, memory_types |-> t] :
        t \in [1..MaxMemoryTypes ->
                 [property_flags : {DEVICE_LOCAL, BitOr(HOST_VISIBLE, HOST_COHERENT)}]] }

\* the allocations made by the Buffer::new calls so far
BufferAllocated == IF is_some(call) THEN unwrap(call).out.allocated ELSE {}

\* the number of Buffer::new calls so far
BufferCalls == IF is_some(call) THEN unwrap(call).n ELSE 0

BufferNew ==
    /\ BufferCalls < MaxBufferCalls
    /\ \E memory_prop \in BufferDevices, bits \in {1, 2^MaxMemoryTypes - 1},
          host_memory \in BOOLEAN, fault \in BufferFaults :
          call' = Some([op |-> "Buffer::new",
                        n |-> BufferCalls + 1,
                        host_memory |-> host_memory,
                        memory_prop |-> memory_prop,
                        fault |-> fault,
                        before |-> BufferAllocated,
                        out |-> Buffer_new_calls(memory_prop, [memory_type_bits |-> bits],
                                                 host_memory, fault, BufferAllocated)])
    /\ UNCHANGED <<rt_pipeline_properties, toplevel_as, sbt, pipeline, pipeline_layout,
                   image_views, descriptor_set, descriptor_pool, size, uniforms, last,
                   sbt_build, trace_rays, blas_call, meshes_calls, accel_live, buffers_live,
                   strong_count, gpu_calls, main_meshes, renderer_live,
                   submitted, freed_in_use, frame, main_vars>>

NextBuffer == BufferNew

SpecBuffer == InitMemory /\ [][NextBuffer]_vars

(***************************************************************************)
(* The primitive counts build_bottomlevel passes for a mesh                *)
(***************************************************************************)
BuildRange ==
    /\ call = None
    /\ \E num_triangles \in 0..MaxTriangles :
          call' = Some([op |-> "build_bottomlevel",
                        num_triangles |-> num_triangles,
                        primitive_count |-> build_range_primitive_count(num_triangles),
                        max_primitive_count |-> max_primitive_count(num_triangles)])
    /\ UNCHANGED <<rt_pipeline_properties, toplevel_as, sbt, pipeline, pipeline_layout,
                   image_views, descriptor_set, descriptor_pool, size, uniforms, last,
                   sbt_build, trace_rays, blas_call, meshes_calls, accel_live, buffers_live,
                   strong_count, gpu_calls, main_meshes, renderer_live,
                   submitted, freed_in_use, frame, main_vars>>

NextBuildRange == BuildRange

SpecBuildRange == InitMemory /\ [][NextBuildRange]_vars

(***************************************************************************)
(* aligned_size on its own, over the range of u32                          *)
(***************************************************************************)
\* the operands set_resolution and draw hand to aligned_size: handle sizes,
\* handle sizes plus 2 * NUM_ATTRIBUTES, and cursor positions up to the end
\* of the largest table
CursorPositions == 0..((2 + MaxMeshes) * 64)

\* values spread over the range of u32, up to u32::MAX
WideValues ==
    { <<high, low>> : high \in {0, 1, 32767, 32768, 65534, 65535},
                      low \in {0, 1, 2, 63, 64, 65, 32768, 65472, 65534, 65535} }

\* the powers of two of u32
PowersOfTwo == { U32(2^k) : k \in 0..30 } \cup { <<32768, 0>> }

AlignedSize ==
    /\ call = None
    /\ \E value \in WideValues \cup {U32(v) : v \in CursorPositions},
          alignment \in PowersOfTwo :
          \E out \in {aligned_size_u32(value, alignment)} :
              call' = Some([op |-> "aligned_size", value |-> value, alignment |-> alignment,
                            out |-> out, again |-> aligned_size_u32(out, alignment)])
    /\ UNCHANGED <<rt_pipeline_properties, toplevel_as, sbt, pipeline, pipeline_layout,
                   image_views, descriptor_set, descriptor_pool, size, uniforms, last,
                   sbt_build, trace_rays, blas_call, meshes_calls, accel_live, buffers_live,
                   strong_count, gpu_calls, main_meshes, renderer_live,
                   submitted, freed_in_use, frame, main_vars>>

NextAligned == AlignedSize

SpecAligned == InitMemory /\ [][NextAligned]_vars

(***************************************************************************)
(* main: the renderers, set_meshes, `drop(meshes)` and the event loop's    *)
(* closure, with the file watcher's closure running beside it              *)
(***************************************************************************)
\* the state of the device and of the RayTrace
device_vars ==
    <<rt_pipeline_properties, toplevel_as, sbt, pipeline, pipeline_layout, image_views,
      descriptor_set, descriptor_pool, size, uniforms, last, sbt_build, trace_rays,
      blas_call, call, meshes_calls, accel_live, buffers_live, strong_count, gpu_calls,
      main_meshes, renderer_live, submitted, freed_in_use, frame>>

\* the events the closure is called with; the keys and window events that
\* share a match arm stand as one, "Other" is every event of the `_` arms
Events ==
    {"MainEventsCleared", "Resized", "CloseRequested", "Key1", "Key2", "Key3", "Key4",
     "KeyW", "Other"}

\* what Swapchain::acquire hands out in the event loop
MainAcquired ==
    {[image_index |-> 0, frame_index |-> 0], [image_index |-> 1, frame_index |-> 2]}

\* the driver's answers to a set_resolution of the event loop
MainResolutionFaults == {"none", "device_wait_idle", "pipeline"}

has_raytrace == \E i \in 1..Len(renderers) : renderers[i] = "RayTrace"

Idle == [failed |-> FALSE, frame_after_failure |-> FALSE, event |-> "none"]

\* `if vulkan_app.raytracing_support() { .. renderers.push(raytrace) }` and
\* `renderers.push(color_sine)`
MainRenderers ==
    /\ pc = "renderers"
    /\ \E raytracing_support \in BOOLEAN : renderers' = renderers_new(raytracing_support)
    /\ pc' = "set_meshes"
    /\ UNCHANGED <<active_drawer_idx, needs_reload, control_flow, iteration, unserved, cmd>>
    /\ UNCHANGED device_vars

\* main goes on after set_meshes only when it returned Ok: `r.set_meshes(..)?`
set_meshes_go_on_mutant_always(result) == TRUE

set_meshes_go_on(result) == result = "ok"

\* `for r in renderers.iter_mut()`: a command buffer is allocated, the
\* renderer's set_meshes runs on main's whole vector and the command buffer
\* is freed; `?` returns from main before free_command_buffers.  The
\* rasterizer's set_meshes answers Ok or Err, ColorSine's is the trait's Ok.
MainSetMeshes ==
    /\ pc = "set_meshes"
    /\ \E raster_ok \in BOOLEAN :
          IF raster_ok /\ has_raytrace
          THEN /\ \E n \in 0..MaxMeshes :
                     \E faults \in FrameBlasFaults(n), tlas_fault \in FrameTlasFaults :
                         set_meshes(SubSeq(main_meshes_vec, 1, n), faults, tlas_fault)
               /\ cmd' = IF last'.result = "ok" THEN "freed" ELSE "allocated"
               /\ pc' = IF set_meshes_go_on(last'.result) THEN "drop_meshes" ELSE "return"
          ELSE /\ UNCHANGED device_vars
               /\ cmd' = IF raster_ok THEN "freed" ELSE "allocated"
               /\ pc' = IF raster_ok THEN "drop_meshes" ELSE "return"
    /\ UNCHANGED <<renderers, active_drawer_idx, needs_reload, control_flow, iteration,
                   unserved>>

\* `drop(meshes)`; then the locals of the event loop and the watcher are
\* made.  What the rasterizer keeps of the meshes is not part of this state.
MainDropMeshes ==
    /\ pc = "drop_meshes"
    /\ IF has_raytrace THEN drop_meshes ELSE UNCHANGED device_vars
    /\ pc' = "loop"
    /\ UNCHANGED <<renderers, active_drawer_idx, needs_reload, control_flow, iteration,
                   unserved, cmd>>

\* main returns the error of set_meshes, or unwinds its panic: the locals go
\* in the reverse order of their declarations, `meshes` before `renderers`
MainReturnMeshes ==
    /\ pc = "return"
    /\ IF has_raytrace THEN drop_meshes ELSE UNCHANGED device_vars
    /\ pc' = "return_renderers"
    /\ UNCHANGED <<renderers, active_drawer_idx, needs_reload, control_flow, iteration,
                   unserved, cmd>>

MainReturnRenderers ==
    /\ pc = "return_renderers"
    /\ IF has_raytrace
       THEN \E wait_fails \in BOOLEAN : drop_renderer(wait_fails)
       ELSE UNCHANGED device_vars
    /\ pc' = "returned"
    /\ UNCHANGED <<renderers, active_drawer_idx, needs_reload, control_flow, iteration,
                   unserved, cmd>>

\* the watcher's closure on Create or Write of a shader file
Watcher ==
    /\ pc \in {"loop", "reload", "clear", "event"}
    /\ needs_reload' = TRUE
    /\ unserved' = TRUE
    /\ UNCHANGED <<renderers, active_drawer_idx, control_flow, pc, iteration, cmd>>
    /\ UNCHANGED device_vars

\* the closure starts: `*control_flow = ControlFlow::Poll` and
\* `needs_reload.load(..)`
CallbackBegin ==
    /\ pc = "loop"
    /\ control_flow' = "Poll"
    /\ \E event \in Events : iteration' = [Idle EXCEPT !.event = event]
    /\ pc' = IF needs_reload THEN "reload" ELSE "event"
    /\ UNCHANGED <<renderers, active_drawer_idx, needs_reload, unserved, cmd>>
    /\ UNCHANGED device_vars

\* `for r in renderers.iter_mut() { if let Err(err) = r.set_resolution(..)
\* { fail(err) } }`: the rasterizer's set_resolution answers Ok or Err,
\* ColorSine's is the trait's Ok
renderers_set_resolution ==
    IF has_raytrace
    THEN \E new_size \in Extents, n_images \in SwapchainImageCounts :
            \E asm_opt \in {assembly_of(rt_pipeline_properties, toplevel_as)} :
                \E fault \in MainResolutionFaults :
                    set_resolution(new_size, n_images, fault, asm_opt)
    ELSE UNCHANGED device_vars

\* the closure's state after a statement: `fail` sets ControlFlow::Exit, a
\* panic ends the process, and the closure returns to the event loop, which
\* ends on ControlFlow::Exit
after(failed, panicked, next, frame_drawn) ==
    /\ iteration' = [iteration EXCEPT
                        !.failed = @ \/ failed,
                        !.frame_after_failure = @ \/ (iteration.failed /\ frame_drawn),
                        !.event = IF next = "loop" THEN "none" ELSE @]
    /\ control_flow' = IF failed THEN "Exit" ELSE control_flow
    /\ pc' = IF panicked THEN "panicked"
             ELSE IF next = "loop" /\ (failed \/ control_flow = "Exit") THEN "exited"
             ELSE next

\* the reload pass: reload_sources, whose error is only warned about, and
\* set_resolution for every renderer; the pass starts after every change
\* notified so far
ReloadPass ==
    /\ pc = "reload"
    /\ \E raster_ok \in BOOLEAN :
          /\ renderers_set_resolution
          /\ after(~raster_ok \/ (has_raytrace /\ last'.result = "err"),
                   has_raytrace /\ last'.result = "panic", "clear", FALSE)
    /\ unserved' = FALSE
    /\ UNCHANGED <<renderers, active_drawer_idx, needs_reload, cmd>>

\* `needs_reload.store(false, ..)`
ClearFlag ==
    /\ pc = "clear"
    /\ needs_reload' = FALSE
    /\ pc' = "event"
    /\ UNCHANGED <<renderers, active_drawer_idx, control_flow, iteration, unserved, cmd>>
    /\ UNCHANGED device_vars

\* the arms of the number keys
select_drawer_mutant_unguarded(key, idx, len) ==
    CASE key = "Key1" -> 0
      [] key = "Key2" -> 1
      [] key = "Key3" -> 2
      [] key = "Key4" -> 3

select_drawer(key, idx, len) ==
    CASE key = "Key1" -> 0
      [] key = "Key2" -> 1
      [] key = "Key3" -> IF len > 2 THEN 2 ELSE idx
      [] key = "Key4" -> IF len > 3 THEN 3 ELSE idx

\* a number key: the index is set and `renderers[active_drawer_idx]` is
\* formatted for the log
KeyNumber ==
    /\ pc = "event"
    /\ iteration.event \in {"Key1", "Key2", "Key3", "Key4"}
    /\ active_drawer_idx' = select_drawer(iteration.event, active_drawer_idx, Len(renderers))
    /\ after(FALSE, active_drawer_idx' >= Len(renderers), "loop", FALSE)
    /\ UNCHANGED <<renderers, needs_reload, unserved, cmd>>
    /\ UNCHANGED device_vars

\* WindowEvent::Resized: one VulkanApp::draw with a closure that records
\* nothing, which the swapchain lets succeed or fail, then set_resolution for
\* every renderer; W and N set the render style and do the same without the
\* draw
Resized ==
    /\ pc = "event"
    /\ iteration.event \in {"Resized", "KeyW"}
    /\ \E draw_ok \in {TRUE} \cup {b \in {FALSE} : iteration.event = "Resized"},
          raster_ok \in BOOLEAN :
          /\ renderers_set_resolution
          /\ after(~draw_ok \/ ~raster_ok \/ (has_raytrace /\ last'.result = "err"),
                   has_raytrace /\ last'.result = "panic", "loop", FALSE)
    /\ UNCHANGED <<renderers, active_drawer_idx, needs_reload, unserved, cmd>>

\* Event::MainEventsCleared: VulkanApp::draw with the active renderer's draw;
\* the acquire may fail before draw_fn runs, and the draw of a renderer other
\* than the RayTrace answers Ok or Err
MainEventsCleared ==
    /\ pc = "event"
    /\ iteration.event = "MainEventsCleared"
    /\ \/ /\ UNCHANGED device_vars
          /\ after(TRUE, FALSE, "loop", FALSE)
       \/ /\ renderers[active_drawer_idx + 1] = "RayTrace"
          /\ \E acq \in MainAcquired : VulkanApp_draw(acq)
          /\ after(last'.result = "err", last'.result = "panic", "loop", TRUE)
       \/ /\ renderers[active_drawer_idx + 1] # "RayTrace"
          /\ UNCHANGED device_vars
          /\ \E draw_ok \in BOOLEAN : after(~draw_ok, FALSE, "loop", TRUE)
    /\ UNCHANGED <<renderers, active_drawer_idx, needs_reload, unserved, cmd>>

\* CloseRequested, Escape and Q call exit(); every other event changes nothing
\* of this state
OtherEvent ==
    /\ pc = "event"
    /\ iteration.event \in {"CloseRequested", "Other"}
    /\ control_flow' = IF iteration.event = "CloseRequested" THEN "Exit" ELSE control_flow
    /\ pc' = IF control_flow' = "Exit" THEN "exited" ELSE "loop"
    /\ iteration' = [iteration EXCEPT !.event = "none"]
    /\ UNCHANGED <<renderers, active_drawer_idx, needs_reload, unserved, cmd>>
    /\ UNCHANGED device_vars

NextMain ==
    \/ MainRenderers \/ MainSetMeshes \/ MainDropMeshes \/ MainReturnMeshes
    \/ MainReturnRenderers \/ Watcher \/ CallbackBegin \/ ReloadPass \/ ClearFlag
    \/ KeyNumber \/ Resized \/ MainEventsCleared \/ OtherEvent

SpecMain == InitRenderer /\ [][NextMain]_vars

(***************************************************************************)
(* Properties                                                              *)
(***************************************************************************)
\* the least multiple of a that is >= x
RoundUp(x, a) == ((x + a - 1) \div a) * a

\* the len bytes of a table at byte offset
ReadBytes(data, offset, len) ==
    [k \in 1..len |-> IF offset + k <= Len(data) THEN data[offset + k] ELSE -1]

HandleSize == rt_pipeline_properties.shader_group_handle_size

BaseAlignment == rt_pipeline_properties.shader_group_base_alignment

\* the number of instances of the renderer's TLAS
N == num_instances(toplevel_as)

\* the mesh of TLAS instance i (0-based)
InstanceMesh(i) == unwrap(unwrap(toplevel_as).bottomlevel_as[i + 1][1].mesh)

\* the last call was a set_resolution that stored a newly assembled SBT
SbtJustStored ==
    /\ last.op = "set_resolution"
    /\ is_some(sbt_build)
    /\ unwrap(sbt_build).result = "ok"
    /\ is_some(pipeline)

\* the hit-group record a ray hitting an instance executes: the hit region's
\* base plus its stride times the instance's record offset (the ray-generation
\* shader traces with record offset 0 and record stride 0)
hit_record_address(region, record_offset) ==
    region.device_address + region.stride * record_offset

\* C1: when draw records trace-rays, a ray hitting instance i selects the
\* record the SBT assembly wrote for position i
C1_HitSelectsRecordOfInstance ==
    (is_some(trace_rays) /\ Len(unwrap(sbt).records) = 2 + N) =>
        \A i \in 0..(N - 1) :
            hit_record_address(unwrap(trace_rays).regions.hit,
                               unwrap(toplevel_as).instances[i + 1].record_offset)
                = unwrap(sbt).device_address + unwrap(sbt).records[3 + i].offset

\* C2: the table size set_resolution precomputes is
\* align(h) + align(h) + N * align(h + 16)
C2_TableSizeClosedForm ==
    is_some(sbt_build) =>
        unwrap(sbt_build).table_size
            = 2 * RoundUp(HandleSize, BaseAlignment) + N * RoundUp(HandleSize + 16, BaseAlignment)

\* C3: whenever the assembly reaches its self-check, the write cursor equals
\* the precomputed table size
C3_SelfCheckHolds ==
    (is_some(sbt_build) /\ unwrap(sbt_build).result # "err") =>
        unwrap(sbt_build).written = unwrap(sbt_build).table_size

\* C4: the regions draw passes describe the assembled layout: raygen at the
\* base, miss at base + align(h), hit at base + 2*align(h), hit stride equal to
\* the distance between consecutive hit records, align(h + 16), hit size N
\* times that, callable empty
C4_RegionsDescribeLayout ==
    is_some(trace_rays) =>
        LET r == unwrap(trace_rays).regions
            base == unwrap(sbt).device_address
            recs == unwrap(sbt).records
        IN  /\ r.raygen.device_address = base
            /\ r.miss.device_address = base + RoundUp(HandleSize, BaseAlignment)
            /\ r.hit.device_address = base + 2 * RoundUp(HandleSize, BaseAlignment)
            /\ r.hit.stride = RoundUp(HandleSize + 16, BaseAlignment)
            /\ \A i \in 1..(Len(recs) - 3) : recs[3 + i].offset - recs[2 + i].offset = r.hit.stride
            /\ r.hit.size = N * RoundUp(HandleSize + 16, BaseAlignment)
            /\ r.callable = Region(0, 0, 0)

\* C5: in a newly assembled SBT the raygen handle is at offset 0, the miss
\* handle at align(h), hit record i at 2*align(h) + i*align(h + 16), all
\* multiples of the base alignment, and record i is hit handle i, then the
\* little-endian index address, then the little-endian normal address of the
\* mesh of TLAS instance i
C5_SbtLayout ==
    SbtJustStored =>
        LET data == unwrap(sbt).data
            h == HandleSize
            a == BaseAlignment
            hit(i) == 2 * RoundUp(h, a) + i * RoundUp(h + 16, a)
        IN  /\ ReadBytes(data, 0, h) = shader_group_handles(0, 1, h)
            /\ ReadBytes(data, RoundUp(h, a), h) = shader_group_handles(1, 1, h)
            /\ RoundUp(h, a) % a = 0
            /\ \A i \in 0..(N - 1) :
                /\ hit(i) % a = 0
                /\ ReadBytes(data, hit(i), h) = shader_group_handles(2 + i, 1, h)
                /\ ReadBytes(data, hit(i) + h, 8)
                     = to_le_bytes(unwrap(indices_device_address(InstanceMesh(i))))
                /\ ReadBytes(data, hit(i) + h + 8, 8)
                     = to_le_bytes(unwrap(normals_device_address(InstanceMesh(i))))

\* C5 witness: an SBT was just assembled for two instances of different meshes
C5_Witness ==
    /\ SbtJustStored
    /\ N = 2
    /\ InstanceMesh(0).id # InstanceMesh(1).id

\* the byte range [offset, offset + len) of a written record
RecordEnd(rec) == rec.offset + Len(rec.bytes)

\* C6: the byte ranges written for the raygen, miss and hit records are
\* pairwise disjoint, lie inside the table of the precomputed size, and read
\* back as written
C6_RecordsDisjointInsideTable ==
    is_some(sbt_build) =>
        LET b == unwrap(sbt_build)
        IN  \A j \in 1..Len(b.records) :
                /\ RecordEnd(b.records[j]) <= b.table_size
                /\ ReadBytes(b.table_data, b.records[j].offset, Len(b.records[j].bytes))
                     = b.records[j].bytes
                /\ \A k \in 1..Len(b.records) :
                      j < k => RecordEnd(b.records[j]) <= b.records[k].offset

\* C7: the instance array of a TLAS has one record per retained BLAS, the
\* build's primitive count is that number, and record i carries transform i,
\* record offset NUM_ATTRIBUTES * i, mask 0xFF, culling disabled and the
\* reference of BLAS i and of no other BLAS
C7_InstanceRecords ==
    is_some(toplevel_as) =>
        LET t == unwrap(toplevel_as)
        IN  /\ Len(t.instances) = Len(t.bottomlevel_as)
            /\ t.primitive_count = Len(t.bottomlevel_as)
            /\ \A i \in 0..(Len(t.bottomlevel_as) - 1) :
                /\ t.instances[i + 1].transform = t.bottomlevel_as[i + 1][2]
                /\ t.instances[i + 1].record_offset = NUM_ATTRIBUTES * i
                /\ t.instances[i + 1].mask = 255
                /\ t.instances[i + 1].flags = TRIANGLE_FACING_CULL_DISABLE
                /\ t.instances[i + 1].acceleration_structure_reference
                     = t.bottomlevel_as[i + 1][1].handle
                /\ \A j \in 0..(Len(t.bottomlevel_as) - 1) :
                      j # i => t.instances[i + 1].acceleration_structure_reference
                                 # t.bottomlevel_as[j + 1][1].handle

\* C7 witness: a TLAS of two instances was built
C7_Witness ==
    /\ last.op = "set_meshes"
    /\ last.result = "ok"
    /\ N = 2

\* C8: a set_meshes call in which a bottom-level build failed returns an
\* error, and after a successful set_meshes the instance count equals the
\* number of meshes given
C8_FailedBuildAbortsSetMeshes ==
    last.op = "set_meshes" =>
        /\ last.failed > 0 => last.result = "err"
        /\ last.result = "ok" => N = last.given

\* some mesh among the TLAS instances lacks its normal or its index buffer
TlasLacksAttribute ==
    /\ is_some(toplevel_as)
    /\ \E i \in 0..(N - 1) : ~({"Normals", "Index"} \subseteq InstanceMesh(i).buffers)

\* the first instance whose mesh lacks its normal or its index buffer
FirstLacking ==
    CHOOSE i \in 0..(N - 1) :
        /\ ~({"Normals", "Index"} \subseteq InstanceMesh(i).buffers)
        /\ \A j \in 0..(i - 1) : {"Normals", "Index"} \subseteq InstanceMesh(j).buffers

\* C9: with a mesh among the TLAS instances lacking its normal (or index)
\* buffer, an SBT assembly that is reached fails with the descriptive error,
\* set_resolution returns it, the bytes written for the lacking record are the
\* handle and the addresses present, no record follows it, and the stored SBT
\* and pipeline are not replaced
C9_MissingNormalsFailAssembly ==
    /\ [](  (TlasLacksAttribute /\ last.op = "set_resolution" /\ is_some(sbt_build)) =>
              LET b == unwrap(sbt_build)
              IN  /\ b.result = "err"
                  /\ b.error \in {"No normals found on mesh", "No indices found on mesh"}
                  /\ last.result = "err"
                  /\ last.error = b.error
                  /\ Len(b.records) = 3 + FirstLacking
                  /\ b.records[3 + FirstLacking].bytes
                       = shader_group_handles(2 + FirstLacking, 1, HandleSize)
                         \o to_le_bytes(unwrap(indices_device_address(InstanceMesh(FirstLacking)))) )
    /\ [][ (TlasLacksAttribute /\ last'.op = "set_resolution") =>
              (sbt' = sbt /\ pipeline' = None) ]_vars

\* C9 witness: set_resolution reached the assembly with a mesh lacking normals
\* behind a complete one
C9_Witness ==
    /\ TlasLacksAttribute
    /\ last.op = "set_resolution"
    /\ is_some(sbt_build)
    /\ FirstLacking = 1

C11_RejectionsReturnErr ==
    (last.op \in {"set_meshes", "set_resolution"} /\ last.rejected > 0) =>
        last.result = "err"

\* C12: a draw that directly follows a set_resolution call that returned an
\* error is skipped: it returns normally and records no trace-rays command
C12_DrawSkippedAfterFailedResolution ==
    [][(last.op = "set_resolution" /\ last.result = "err" /\ last'.op = "draw") =>
           (last'.result = "ok" /\ trace_rays' = None)]_vars

\* C13: a present pipeline comes with the SBT assembled from its shader-group
\* handles, and a recorded trace-rays addresses the SBT of the pipeline bound
C13_SbtOfBoundPipeline ==
    /\ is_some(pipeline) =>
           (is_some(sbt) /\ unwrap(sbt).pipeline = unwrap(pipeline).id)
    /\ is_some(trace_rays) =>
           unwrap(trace_rays).sbt_pipeline = unwrap(trace_rays).pipeline

\* C13 witness: trace-rays was recorded with a pipeline that replaced an
\* earlier one
C13_Witness ==
    /\ is_some(trace_rays)
    /\ unwrap(trace_rays).pipeline = 2

\* C14: when draw records trace-rays, the SBT holds as many hit-group records
\* and the pipeline as many hit groups as the TLAS has instances
C14_SbtMatchesInstanceCount ==
    is_some(trace_rays) =>
        /\ unwrap(trace_rays).sbt_hit_records = N
        /\ unwrap(pipeline).groups = 2 + N

\* the step was a set_resolution call
ResolutionStep == gpu_calls' # <<>> /\ gpu_calls'[1].by = "set_resolution"

\* the driver calls that build, create or destroy an acceleration structure
AccelerationStructureCalls ==
    {"cmd_build_acceleration_structures", "create_acceleration_structure",
     "destroy_acceleration_structure", "get_acceleration_structure_build_sizes",
     "get_acceleration_structure_device_address"}

\* the Buffers of the acceleration structures among a set of Buffers
AccelerationStructureBuffers(buffers) ==
    {b \in buffers : b[1] \in {"as_storage", "scratch", "instances"}}

\* C15: a set_resolution call, whatever its result, issues no
\* acceleration-structure call, creates or destroys no acceleration structure
\* and no acceleration-structure buffer, and leaves the TLAS (its handle and
\* its ordered list of BLAS and transform) as it was
C15_ResolutionLeavesAccelerationStructures ==
    [][ResolutionStep =>
           /\ toplevel_as' = toplevel_as
           /\ accel_live' = accel_live
           /\ AccelerationStructureBuffers(buffers_live')
                = AccelerationStructureBuffers(buffers_live)
           /\ \A j \in 1..Len(gpu_calls') :
                 /\ gpu_calls'[j].by \in {"set_resolution", "Buffer::drop"}
                 /\ gpu_calls'[j].object[1] \in {"none", "sbt"}
                 /\ \A c \in 1..Len(gpu_calls'[j].calls) :
                       gpu_calls'[j].calls[c] \notin AccelerationStructureCalls]_vars

\* C15 witness: a set_resolution call succeeded on a TLAS of two instances
\* and replaced the SBT of an earlier call
C15_Witness ==
    /\ last.op = "set_resolution"
    /\ last.result = "ok"
    /\ N = 2
    /\ Len(gpu_calls) = 2
    /\ gpu_calls[1].by = "set_resolution"
    /\ gpu_calls[2].by = "Buffer::drop"

\* the instances of the renderer's TLAS whose BLAS was built from the mesh
InstancesOf(mesh) == {i \in 0..(N - 1) : InstanceMesh(i).id = mesh.id}

\* the Buffers of a mesh, as a set
MeshBufferSet(mesh) == {mesh_buffers(mesh)[j] : j \in 1..Len(mesh_buffers(mesh))}

OwnedStructures ==
    IF is_some(toplevel_as)
    THEN {unwrap(toplevel_as).structure}
         \cup {unwrap(toplevel_as).bottomlevel_as[j][1].handle :
                  j \in 1..Len(unwrap(toplevel_as).bottomlevel_as)}
    ELSE {}

\* C17: no acceleration structure is live once its backing Buffer was freed,
\* and the structures that are live are those the renderer's TLAS owns: the
\* drop of a TLAS destroyed the TLAS and every BLAS it owned
C17_StructuresDestroyedWithTheirTlas ==
    /\ \A h \in accel_live : <<"as_storage", h>> \in buffers_live
    /\ accel_live = OwnedStructures

\* the Buffers that came to life in the first j segments of a log
CreatedUpTo(log, j) ==
    UNION { {log[i].created[c] : c \in 1..Len(log[i].created)} : i \in 1..j }

\* the Buffers dropped in the first j segments of a log
DroppedUpTo(log, j) == {log[i].object : i \in {i \in 1..j : log[i].by = "Buffer::drop"}}

\* C18: a Buffer that Buffer::new returned is dropped exactly once: a drop
\* frees the memory and then destroys the handle, it is the drop of a Buffer
\* alive at that point, memory is freed and handles are destroyed nowhere
\* else, the Buffers alive after a step are those alive before it and those
\* made in it less those dropped in it, and none is alive once main's meshes
\* and the renderer are gone
C18_BuffersDroppedOnce ==
    /\ [](~renderer_live => buffers_live = {})
    /\ [][LET log == gpu_calls'
          IN  /\ \A j \in 1..Len(log) :
                    /\ \A c \in 1..Len(log[j].created) :
                          log[j].created[c] \notin (buffers_live \cup CreatedUpTo(log, j - 1))
                    /\ log[j].by = "Buffer::drop" =>
                          /\ log[j].calls = <<"free_memory", "destroy_buffer">>
                          /\ log[j].object \in (buffers_live \cup CreatedUpTo(log, j))
                                                  \ DroppedUpTo(log, j - 1)
                    /\ log[j].by # "Buffer::drop" =>
                          \A c \in 1..Len(log[j].calls) :
                              log[j].calls[c] \notin {"free_memory", "destroy_buffer"}
              /\ buffers_live' = (buffers_live \cup CreatedUpTo(log, Len(log)))
                                    \ DroppedUpTo(log, Len(log))]_vars

\* C18 witness: the renderer was dropped after main's meshes, and with it the
\* Buffers of its SBT, of its TLAS and BLAS and of a mesh
C18_Witness ==
    /\ ~renderer_live
    /\ gpu_calls # <<>>
    /\ gpu_calls[1].by = "RayTrace::drop"
    /\ \A kind \in {"sbt", "as_storage", "Position", "Normals", "Index"} :
          \E j \in 2..Len(gpu_calls) :
              gpu_calls[j].by = "Buffer::drop" /\ gpu_calls[j].object[1] = kind

\* the segments of a log that are acceleration-structure builds
BuildSegments(log) ==
    {j \in 1..Len(log) : log[j].by \in {"build_bottomlevel", "build_toplevel"}}

\* the build of a segment was submitted and is not known to have completed:
\* the queue took it and no queue_wait_idle returned success after it
Pending(segment) ==
    /\ \E c \in 1..Len(segment.calls) : segment.calls[c] = "queue_submit"
    /\ segment.fault \in {"wait"}

\* the segment records or submits a build
RecordsBuild(segment) ==
    \E c \in 1..Len(segment.calls) :
        segment.calls[c] \in {"begin_command_buffer", "cmd_build_acceleration_structures",
                              "queue_submit"}

\* C19: in a set_meshes call every accepted queue_submit of a build is
\* directly followed by queue_wait_idle, and no build is recorded or submitted
\* while an earlier build of the call is pending
C19_BuildsNeverOverlap ==
    last.op = "set_meshes" =>
        \A j \in BuildSegments(gpu_calls) :
            /\ \A c \in 1..Len(gpu_calls[j].calls) :
                  (gpu_calls[j].calls[c] = "queue_submit" /\ gpu_calls[j].fault # "submit") =>
                      (c < Len(gpu_calls[j].calls)
                       /\ gpu_calls[j].calls[c + 1] = "queue_wait_idle")
            /\ \A k \in BuildSegments(gpu_calls) :
                  (j < k /\ Pending(gpu_calls[j])) => ~RecordsBuild(gpu_calls[k])

\* the positions of a call in a sequence of calls
PositionsOf(calls, name) == {c \in 1..Len(calls) : calls[c] = name}

\* the segment of the last build of a log: set_meshes ends with build_toplevel
ToplevelSegment(log) ==
    CHOOSE t \in BuildSegments(log) : \A j \in BuildSegments(log) : j <= t

\* C20: after set_meshes built a TLAS, every BLAS referenced in its instance
\* array was built earlier in the call by a build whose queue_submit was
\* accepted and waited for; and in every build_toplevel the instance data is
\* uploaded before the memory barrier is recorded, and the barrier before the
\* build command
C20_BlasBuiltBeforeInstances ==
    (last.op = "set_meshes" /\ BuildSegments(gpu_calls) # {}) =>
        LET t == ToplevelSegment(gpu_calls)
            calls == gpu_calls[t].calls
        IN  /\ gpu_calls[t].by = "build_toplevel"
            /\ last.result = "ok" =>
                  \A i \in 1..Len(unwrap(toplevel_as).instances) :
                      \E j \in BuildSegments(gpu_calls) :
                          /\ j < t
                          /\ gpu_calls[j].by = "build_bottomlevel"
                          /\ gpu_calls[j].object
                               = <<"as", unwrap(toplevel_as).instances[i]
                                            .acceleration_structure_reference>>
                          /\ gpu_calls[j].fault = "none"
                          /\ \E c \in PositionsOf(gpu_calls[j].calls, "queue_submit") :
                                gpu_calls[j].calls[c + 1] = "queue_wait_idle"
            /\ \A b \in PositionsOf(calls, "cmd_build_acceleration_structures") :
                  \E m \in PositionsOf(calls, "cmd_pipeline_barrier") :
                      /\ m < b
                      /\ \E u \in PositionsOf(calls, "unmap_memory") : u < m
                      /\ \E g \in PositionsOf(calls, "begin_command_buffer") : g < m
            /\ \A m \in PositionsOf(calls, "cmd_pipeline_barrier") :
                  \E u \in PositionsOf(calls, "unmap_memory") : u < m

\* C20 witness: set_meshes built a TLAS over two BLAS
C20_Witness ==
    /\ last.op = "set_meshes"
    /\ last.result = "ok"
    /\ N = 2
    /\ Cardinality(BuildSegments(gpu_calls)) = 3

\* bit b (a power of two) is set in the mask x
BitSet(x, b) == (x \div b) % 2 = 1

\* memory type i of a find_memorytype_index call is valid, allowed by the
\* requirement and has every requested flag
Suitable(c, i) ==
    /\ i < c.memory_prop.memory_type_count
    /\ BitSet(c.memory_req.memory_type_bits, 2^i)
    /\ \A b \in {DEVICE_LOCAL, HOST_VISIBLE, HOST_COHERENT} :
          BitSet(c.flags, b) => BitSet(c.memory_prop.memory_types[i + 1].property_flags, b)

\* C21: find_memorytype_index returns the least index below
\* memory_type_count whose bit is set in memory_type_bits and whose property
\* flags contain every requested flag, and None exactly when there is none
C21_FirstSuitableMemoryType ==
    (is_some(call) /\ unwrap(call).op = "find_memorytype_index") =>
        LET c == unwrap(call)
        IN  /\ is_some(c.out) =>
                  /\ Suitable(c, unwrap(c.out))
                  /\ \A j \in 0..(unwrap(c.out) - 1) : ~Suitable(c, j)
            /\ ~is_some(c.out) => \A j \in 0..(MaxMemoryTypes - 1) : ~Suitable(c, j)

\* C21 witness: index 1 is returned: type 0 is allowed but lacks a requested
\* flag, and the entry behind memory_type_count would have been suitable
C21_Witness ==
    /\ is_some(call)
    /\ unwrap(call).op = "find_memorytype_index"
    /\ unwrap(call).out = Some(1)
    /\ unwrap(call).memory_prop.memory_type_count = 2
    /\ BitSet(unwrap(call).memory_req.memory_type_bits, 1)
    /\ BitSet(unwrap(call).memory_req.memory_type_bits, 4)
    /\ unwrap(call).memory_prop.memory_types[3].property_flags = unwrap(call).flags

\* the positions of a driver call in the calls of a Buffer::new
CallsNamed(calls, name) == {c \in 1..Len(calls) : calls[c].name = name}

\* C22: a Buffer::new call that succeeded issued one allocate_memory and one
\* bind_buffer_memory; it asked for host-visible and coherent memory if a
\* payload was given and for device-local memory otherwise, and allocated
\* from a memory type that has these flags; it mapped the memory only with a
\* payload and unmapped it before the bind; and the memory it bound was
\* allocated in this call, not in an earlier one
C22_BufferNewAllocatesOnceAndBinds ==
    (is_some(call) /\ unwrap(call).op = "Buffer::new" /\ unwrap(call).out.result = "ok") =>
        LET c == unwrap(call)
            calls == c.out.calls
            memory == unwrap(c.out.memory)
        IN  /\ Cardinality(CallsNamed(calls, "allocate_memory")) = 1
            /\ Cardinality(CallsNamed(calls, "bind_buffer_memory")) = 1
            /\ c.out.flags = IF c.host_memory THEN HOST_VISIBLE + HOST_COHERENT
                              ELSE DEVICE_LOCAL
            /\ \A a \in CallsNamed(calls, "allocate_memory") :
                  \A b \in {DEVICE_LOCAL, HOST_VISIBLE, HOST_COHERENT} :
                      BitSet(c.out.flags, b) =>
                          BitSet(c.memory_prop.memory_types[calls[a].arg + 1].property_flags, b)
            /\ Cardinality(CallsNamed(calls, "map_memory")) = (IF c.host_memory THEN 1 ELSE 0)
            /\ \A m \in CallsNamed(calls, "map_memory") :
                  \E u \in CallsNamed(calls, "unmap_memory") :
                      /\ m < u
                      /\ calls[u].arg = calls[m].arg
                      /\ \A b \in CallsNamed(calls, "bind_buffer_memory") : u < b
            /\ Cardinality(CallsNamed(calls, "unmap_memory"))
                 = Cardinality(CallsNamed(calls, "map_memory"))
            /\ \A b \in CallsNamed(calls, "bind_buffer_memory") :
                  /\ calls[b].arg = memory
                  /\ \A a \in CallsNamed(calls, "allocate_memory") : a < b
            /\ memory \notin c.before
            /\ c.out.allocated = c.before \cup {memory}

\* C22 witness: a Buffer::new with a payload succeeded after an earlier call
\* had made an allocation
C22_Witness ==
    /\ is_some(call)
    /\ unwrap(call).op = "Buffer::new"
    /\ unwrap(call).out.result = "ok"
    /\ unwrap(call).host_memory
    /\ unwrap(call).before # {}

\* C23: a set_meshes call with an empty mesh list that the driver does not
\* reject returns Ok and installs a TLAS of 0 instances, and while the TLAS
\* has 0 instances a draw that records trace-rays records it with an extent
\* of zero
C23_EmptySceneTracesNothing ==
    /\ (renderer_live /\ last.op = "set_meshes" /\ last.given = 0 /\ last.rejected = 0) =>
           (last.result = "ok" /\ is_some(toplevel_as) /\ N = 0)
    /\ (is_some(trace_rays) /\ N = 0) =>
           (unwrap(trace_rays).width = 0 \/ unwrap(trace_rays).height = 0)

\* the step is a set_resolution call that succeeds directly after one that
\* succeeded with the same extent (the swapchain has one image count)
ResolutionRepeated ==
    /\ last.op = "set_resolution"
    /\ last.result = "ok"
    /\ ResolutionStep
    /\ last'.result = "ok"
    /\ size' = size
    /\ Cardinality(SwapchainImageCounts) = 1

\* C24: a set_resolution call repeated with the same parameters leaves the
\* SBT with the same bytes, the pipeline with the same number of shader
\* groups, the same number of image views and one descriptor set
C24_ResolutionIdempotent ==
    [][ResolutionRepeated =>
           /\ unwrap(sbt').data = unwrap(sbt).data
           /\ unwrap(sbt').size = unwrap(sbt).size
           /\ unwrap(sbt').records = unwrap(sbt).records
           /\ unwrap(pipeline').groups = unwrap(pipeline).groups
           /\ image_views' = image_views
           /\ is_some(descriptor_set')
           /\ is_some(descriptor_pool')]_vars

\* C24 witness: a set_resolution succeeded on a renderer that held the
\* pipeline, the descriptor set and the SBT of an earlier call, with a TLAS
\* of two instances
C24_Witness ==
    /\ last.op = "set_resolution"
    /\ last.result = "ok"
    /\ N = 2
    /\ Len(gpu_calls) = 2
    /\ gpu_calls[1].calls[1] = "destroy_pipeline_layout"
    /\ \E c \in 1..Len(gpu_calls[1].calls) : gpu_calls[1].calls[c] = "free_descriptor_sets"
    /\ gpu_calls[2].by = "Buffer::drop"

\* the driver calls that destroy a resource of the previous resolution
DestroyCalls ==
    {"destroy_pipeline", "destroy_pipeline_layout", "destroy_image_view",
     "free_descriptor_sets", "destroy_descriptor_pool", "free_memory", "destroy_buffer"}

\* the calls of the segments of a log, one after the other
RECURSIVE FlatCalls(_)
FlatCalls(log) == IF log = <<>> THEN <<>> ELSE Head(log).calls \o FlatCalls(Tail(log))

\* C25: in a set_resolution call no resource of the previous resolution is
\* destroyed before device_wait_idle has returned successfully
C25_WaitBeforeFirstDestruction ==
    (gpu_calls # <<>> /\ gpu_calls[1].by = "set_resolution") =>
        LET calls == FlatCalls(gpu_calls)
        IN  \A d \in {c \in 1..Len(calls) : calls[c] \in DestroyCalls} :
                /\ \E w \in PositionsOf(calls, "device_wait_idle") : w < d
                /\ gpu_calls[1].fault # "device_wait_idle"

\* every call named first comes before every call named second, and both occur
CallsInOrder(calls, first, second) ==
    /\ PositionsOf(calls, first) # {}
    /\ PositionsOf(calls, second) # {}
    /\ \A a \in PositionsOf(calls, first), b \in PositionsOf(calls, second) : a < b

\* C27: a set_resolution call that succeeded created the pipeline with 2 + N
\* shader groups, then read its group handles and made the SBT buffer, then
\* one image view per swapchain image, then the descriptor pool and the
\* descriptor set, and wrote the TLAS and the output image into the set
C27_ResolutionRecreatesInOrder ==
    (last.op = "set_resolution" /\ last.result = "ok"
     /\ gpu_calls # <<>> /\ gpu_calls[1].by = "set_resolution") =>
        LET calls == gpu_calls[1].calls
        IN  /\ unwrap(pipeline).groups = 2 + N
            /\ unwrap(sbt).pipeline = unwrap(pipeline).id
            /\ CallsInOrder(calls, "create_ray_tracing_pipelines",
                             "get_ray_tracing_shader_group_handles")
            /\ CallsInOrder(calls, "get_ray_tracing_shader_group_handles", "create_buffer")
            /\ CallsInOrder(calls, "create_buffer", "create_image_view")
            /\ Cardinality(PositionsOf(calls, "create_image_view")) = Len(image_views)
            /\ CallsInOrder(calls, "create_image_view", "create_descriptor_pool")
            /\ CallsInOrder(calls, "create_descriptor_pool", "allocate_descriptor_sets")
            /\ CallsInOrder(calls, "allocate_descriptor_sets", "update_descriptor_sets")

\* C29: after a set_resolution call that succeeded, the extent the push
\* constants were computed from is the renderer's size, the extent of the
\* call
C29_UniformsOfCurrentSize ==
    (last.op = "set_resolution" /\ last.result = "ok" /\ is_some(uniforms)) =>
        unwrap(uniforms).extent = size

\* C30: the primitive count of the build range build_bottomlevel passes to
\* the build command is the triangle count of the mesh and is the maximum
\* primitive count it passed to the size query
C30_BuildCoversEveryTriangle ==
    (is_some(call) /\ unwrap(call).op = "build_bottomlevel") =>
        /\ unwrap(call).primitive_count = unwrap(call).num_triangles
        /\ unwrap(call).primitive_count = unwrap(call).max_primitive_count

\* C28: the index a frame hands to the renderer's draw is smaller than the
\* number of image views set_resolution created, and the view draw binds as
\* the output image is the view of the image the frame presents
C28_DrawIndexIsAcquiredImage ==
    is_some(frame) =>
        LET f == unwrap(frame)
        IN  /\ f.views > 0 => f.swapchain_idx < f.views
            /\ (is_some(f.image_view) /\ is_some(f.presented)) =>
                   unwrap(f.image_view) = created_image_views(f.views)[unwrap(f.presented) + 1]

\* C26: over frames, set_meshes, set_resolution and the drops, no buffer and
\* no image view is destroyed while a submitted command buffer that names it
\* may still be executing: a wait for the queue or the device has returned
\* success since the last submission that names it
C26_NothingFreedInUse ==
    freed_in_use = {}

\* x <= y on u32 values given as halves
LessEq32(x, y) == x[1] < y[1] \/ (x[1] = y[1] /\ x[2] <= y[2])

\* x is a multiple of the power of two a (u32 values given as halves)
MultipleOf(x, a) ==
    IF a[1] = 0 THEN x[2] % a[2] = 0 ELSE x[2] = 0 /\ x[1] % a[1] = 0

\* the u32 values between x and y, x excluded, hold no multiple of a: the
\* halves of the multiple of a just below y, if any, are not above x
NoMultipleBetween(x, y, a) ==
    \/ y = <<0, 0>>
    \/ IF a[1] = 0
       THEN IF y[2] >= a[2] THEN LessEq32(<<y[1], y[2] - a[2]>>, x)
            ELSE y[1] = 0 \/ LessEq32(<<y[1] - 1, Half - a[2]>>, x)
       ELSE y[1] < a[1] \/ LessEq32(<<y[1] - a[1], 0>>, x)

\* some multiple of a that is >= x is a u32
Representable(x, a) ==
    IF a[1] = 0
    THEN x[1] < Half - 1 \/ x[2] <= Half - a[2]
    ELSE LessEq32(x, <<Half - a[1], 0>>)

\* value + alignment - 1 is no u32
SumWraps(value, alignment) ==
    \/ value[1] + alignment[1] + (value[2] + alignment[2] - 1) \div Half >= Half

BuffersLeft(c) ==
    IF c.fault # "create_buffer" /\ CallsNamed(c.out.calls, "destroy_buffer") = {}
    THEN CallsNamed(c.out.calls, "create_buffer") ELSE {}

\* the allocations a Buffer::new call made and did not free
MemoryLeft(c) ==
    {m \in c.out.allocated \ c.before :
        \A k \in CallsNamed(c.out.calls, "free_memory") : c.out.calls[k].arg # m}

\* C35: a Buffer::new call that returns an error leaves no buffer handle and
\* no memory allocation of its own alive
C35_BufferNewLeavesNothingOnError ==
    (is_some(call) /\ unwrap(call).op = "Buffer::new" /\ unwrap(call).out.result = "err") =>
        /\ BuffersLeft(unwrap(call)) = {}
        /\ MemoryLeft(unwrap(call)) = {}

\* the build segments of a call that made the Buffer id
BuildsOf(id) ==
    {b \in BuildSegments(gpu_calls) :
        \E k \in 1..Len(gpu_calls[b].created) : gpu_calls[b].created[k] = id}

\* C36: a build's scratch buffer and the TLAS build's instance buffer are
\* dropped only after the build has completed: when the queue accepted the
\* build's command buffer (the build went on to queue_wait_idle), the wait
\* returned success before
C36_ScratchOutlivesBuild ==
    \A j \in 1..Len(gpu_calls) :
        (gpu_calls[j].by = "Buffer::drop" /\ gpu_calls[j].object[1] \in {"scratch", "instances"}) =>
            \A b \in BuildsOf(gpu_calls[j].object) :
                (b < j /\ PositionsOf(gpu_calls[b].calls, "queue_wait_idle") # {}) =>
                    gpu_calls[b].fault = "none"

\* C31: a draw of a renderer that holds a TLAS and neither pipeline nor
\* descriptor set nor SBT (set_meshes succeeded, no set_resolution did) does
\* not panic and records no trace-rays command; and a draw records trace-rays
\* only with pipeline, layout, descriptor set, push constants and SBT present
C31_DrawBeforeResolutionIsHarmless ==
    (renderer_live /\ last.op = "draw") =>
        /\ (is_some(toplevel_as) /\ ~is_some(pipeline) /\ ~is_some(descriptor_set)
            /\ ~is_some(sbt)) =>
               (last.result # "panic" /\ ~is_some(trace_rays))
        /\ is_some(trace_rays) =>
               /\ is_some(pipeline)
               /\ is_some(pipeline_layout)
               /\ is_some(descriptor_set)
               /\ is_some(uniforms)
               /\ is_some(sbt)

\* C39: with or without the ray tracer among the renderers and after every
\* sequence of number keys, the index of the active renderer is below the
\* number of renderers
C39_ActiveRendererInRange == active_drawer_idx < Len(renderers)

\* without ray tracing the second of two renderers has been selected
C39_Witness == Len(renderers) = 2 /\ active_drawer_idx = 1 /\ pc = "loop"

\* C32: set_resolution runs only after every set_meshes of main returned Ok
\* and the RayTrace holds a TLAS, so its SBT assembly never unwraps an absent
\* TLAS
C32_ResolutionOnlyAfterMeshes ==
    last.op = "set_resolution" =>
        /\ cmd = "freed"
        /\ is_some(toplevel_as)
        /\ last.error # "called Option::unwrap() on a None value"

\* a set_resolution of the event loop assembled and stored the SBT
C32_Witness ==
    last.op = "set_resolution" /\ last.result = "ok" /\ is_some(sbt) /\ pc = "loop"

\* C33: when the closure is about to load the flag, every change of a shader
\* file that no reload pass has started after still has the flag set, so a
\* pass will follow it
C33_NoChangeLost == (pc = "loop" /\ unserved) => needs_reload

\* C38: once a set_resolution or a frame's draw failed in a run of the
\* closure, control flow is Exit from then on, and the run draws no frame
\* after the failure
C38_FailureExitsLoop ==
    /\ iteration.failed => control_flow = "Exit"
    /\ ~iteration.frame_after_failure

\* the recording of a build's segment was ended
Ended(segment) ==
    PositionsOf(segment.calls, "end_command_buffer") # {} /\ segment.fault # "end"

\* C34: in main's set_meshes the command buffer is begun only while no
\* earlier submission of it is pending, a queue_submit directly follows the
\* end of the recording, each ended recording is submitted once, and main
\* frees the command buffer only with no submission pending
C34_CommandBufferReusedSafely ==
    /\ last.op = "set_meshes" =>
          \A j \in BuildSegments(gpu_calls) :
              /\ PositionsOf(gpu_calls[j].calls, "begin_command_buffer") # {} =>
                    \A k \in BuildSegments(gpu_calls) : k < j => ~Pending(gpu_calls[k])
              /\ \A c \in PositionsOf(gpu_calls[j].calls, "queue_submit") :
                    c > 1 /\ gpu_calls[j].calls[c - 1] = "end_command_buffer"
              /\ Cardinality(PositionsOf(gpu_calls[j].calls, "queue_submit"))
                    = IF Ended(gpu_calls[j]) THEN 1 ELSE 0
    /\ (pc = "drop_meshes" /\ cmd = "freed") => submitted = {}

====
